---------------------------- MODULE Spec2Model ----------------------------
(***************************************************************************)
(* A model of the cognito-client facade: the attribute-name mapper, the    *)
(* result mappers and the facade operations built on them.                 *)
(*                                                                         *)
(* JavaScript strings are sequences of one-character strings.  The value   *)
(* undefined of an optional string is the one-element sequence Undefined,  *)
(* whose element is no character of any alphabet used here; of an optional *)
(* number it is NoNumber; of an optional Date it is NoDate; of an optional *)
(* container object it is the record NoObject.                             *)
(***************************************************************************)
EXTENDS Integers, Sequences, FiniteSets, TLC

VARIABLES
    fn,        \* the mapper function last applied ("none" before the first)
    arg,       \* its argument
    ret,       \* its completion: [kind |-> "returned", value |-> ...] or
               \*                 [kind |-> "thrown", message |-> ...]
    op,        \* the facade operation of the current invocation
    params,    \* its parameter record
    pc,        \* "idle", "awaiting", "settling", "resolved", "rejected"
    sent,      \* the requests this invocation has sent to the provider
    response,  \* how the provider completed the last request
    outcome,   \* how the invocation settled
    now,       \* the clock when the invocation resumes after its request
    config,    \* this.config of the facade, set by its constructor
    replies,   \* how the provider completed each request of the invocation
    createUserResult,
               \* createUser's local result, kept across its second await
    calls,     \* the invocations of one facade instance that run concurrently,
               \* each with its own parameters and local variables
    client,    \* this.client, the provider client the constructor was given
    throwOriginalErrors
               \* the third argument given to the constructor: the
               \* CognitoAdminClient of part_000 keeps it as a field, the
               \* facades of src/lib declare no such parameter

vars ==
    <<fn, arg, ret, op, params, pc, sent, response, outcome, now, config, replies,
      createUserResult, throwOriginalErrors, calls, client>>
mapperVars == <<fn, arg, ret>>
facadeVars ==
    <<op, params, pc, sent, response, outcome, now, config, replies,
      createUserResult, throwOriginalErrors, calls, client>>
concurrentVars == <<calls, client>>

---------------------------------------------------------------------------
(* Bounds of the model.                                                    *)

MaxSuffix == 2        \* length of the generated part of a name given alone
MaxAttrs == 2         \* entries of an attribute list or mapping

---------------------------------------------------------------------------
(* JavaScript values.                                                      *)

Undefined == <<"undefined">>
NoNumber == -1
NoDate == -1
NoObject == [undefined |-> TRUE]

\* !x is false: a string that is present and not empty
Truthy(s) == s # Undefined /\ s # <<>>

\* !n is false: a number that is present and not zero
TruthyNumber(n) == n # NoNumber /\ n # 0

\* x || d for strings
OrElse(s, d) == IF Truthy(s) THEN s ELSE d

LowerLetters ==
    <<"a","b","c","d","e","f","g","h","i","j","k","l","m",
      "n","o","p","q","r","s","t","u","v","w","x","y","z">>
UpperLetters ==
    <<"A","B","C","D","E","F","G","H","I","J","K","L","M",
      "N","O","P","Q","R","S","T","U","V","W","X","Y","Z">>

Range(s) == {s[i] : i \in DOMAIN s}
IsLower(c) == c \in Range(LowerLetters)
IsUpper(c) == c \in Range(UpperLetters)
IndexIn(c, letters) == CHOOSE i \in DOMAIN letters : letters[i] = c

\* String.prototype.toUpperCase / toLowerCase on ASCII strings
toUpperCase(s) ==
    [i \in DOMAIN s |->
        IF IsLower(s[i]) THEN UpperLetters[IndexIn(s[i], LowerLetters)] ELSE s[i]]
toLowerCase(s) ==
    [i \in DOMAIN s |->
        IF IsUpper(s[i]) THEN LowerLetters[IndexIn(s[i], UpperLetters)] ELSE s[i]]

\* s.startsWith(p), s.slice(n), s.charAt(0)
startsWith(s, p) == Len(s) >= Len(p) /\ SubSeq(s, 1, Len(p)) = p
slice(s, n) == SubSeq(s, n + 1, Len(s))
charAt0(s) == IF Len(s) > 0 THEN <<s[1]>> ELSE <<>>

CustomColon == <<"c","u","s","t","o","m",":">>
Custom == <<"c","u","s","t","o","m">>
Separators == {"-", "_"}

\* name.replace(/[-_]([a-z])/g, (_, c) => c.toUpperCase()): the scan of a
\* global replace, left to right, resuming after each match
RECURSIVE replaceFrom(_, _)
replaceFrom(s, i) ==
    IF i > Len(s) THEN <<>>
    ELSE IF i < Len(s) /\ s[i] \in Separators /\ IsLower(s[i + 1])
         THEN toUpperCase(<<s[i + 1]>>) \o replaceFrom(s, i + 2)
         ELSE <<s[i]>> \o replaceFrom(s, i + 1)
camelCase(s) == replaceFrom(s, 1)

\* attributeKey, but the first character of the suffix keeps its case
attributeKey_noUpper(attrName) ==
    LET name == IF startsWith(attrName, CustomColon)
                THEN Custom \o slice(attrName, 7)
                ELSE attrName
    IN  camelCase(name)

\* lines 51-61 of the mapper: the application key of a provider name
attributeKey(attrName) ==
    LET name == IF startsWith(attrName, CustomColon)
                THEN LET suffix == slice(attrName, 7)
                         firstChar == toUpperCase(charAt0(suffix))
                         rest == slice(suffix, 1)
                     IN  Custom \o firstChar \o rest
                ELSE attrName
    IN  camelCase(name)

\* put, but an existing key keeps its first value
put_keepFirst(m, k, v) ==
    IF \E i \in DOMAIN m : m[i].key = k THEN m
    ELSE Append(m, [key |-> k, value |-> v])

hasKey(m, k) == \E i \in DOMAIN m : m[i].key = k
lookup(m, k) == m[CHOOSE i \in DOMAIN m : m[i].key = k].value

\* result[key] = value on a Record kept as its entries in insertion order
\* (no key built here is an array index, so this is its iteration order)
put(m, k, v) ==
    IF hasKey(m, k)
    THEN [i \in DOMAIN m |-> IF m[i].key = k THEN [key |-> k, value |-> v] ELSE m[i]]
    ELSE Append(m, [key |-> k, value |-> v])

UndefinedList == <<[undefined |-> TRUE]>>

\* reduceAttributes, but testing attr.Name only
RECURSIVE reduceAttributes_nameOnly(_, _, _)
reduceAttributes_nameOnly(attributes, i, result) ==
    IF i > Len(attributes) THEN result
    ELSE LET attr == attributes[i]
         IN  reduceAttributes_nameOnly(attributes, i + 1,
                 IF Truthy(attr.Name)
                 THEN put(result, attributeKey(attr.Name), attr.Value)
                 ELSE result)

\* attributes.reduce(...) from {}, with the default parameter [] for undefined
RECURSIVE reduceAttributes(_, _, _)
reduceAttributes(attributes, i, result) ==
    IF i > Len(attributes) THEN result
    ELSE LET attr == attributes[i]
         IN  reduceAttributes(attributes, i + 1,
                 IF Truthy(attr.Name) /\ Truthy(attr.Value)
                 THEN put(result, attributeKey(attr.Name), attr.Value)
                 ELSE result)
mapAttributes(attributes) ==
    reduceAttributes(IF attributes = UndefinedList THEN <<>> ELSE attributes, 1, <<>>)

\* attributeName, but the character after 'custom' keeps its case
attributeName_noLower(key) ==
    IF startsWith(key, Custom) /\ key # Custom /\ Len(key) > 6
    THEN CustomColon \o slice(key, 6)
    ELSE key

\* the provider name of an application key
attributeName(key) ==
    IF startsWith(key, Custom) /\ key # Custom /\ Len(key) > 6
    THEN LET restOfKey == slice(key, 6)
             firstChar == toLowerCase(charAt0(restOfKey))
             rest == slice(restOfKey, 1)
         IN  CustomColon \o firstChar \o rest
    ELSE key

\* Object.entries(attributes).map(...)
mapToAttributeList(attributes) ==
    [i \in DOMAIN attributes |->
        [Name |-> attributeName(attributes[i].key), Value |-> attributes[i].value]]

InvalidAuthResult == "Invalid authentication result from Cognito"
Bearer == <<"B","e","a","r","e","r">>

\* mapAuthResult, but without the test of ExpiresIn
mapAuthResult_noExpiryCheck(result) ==
    IF ~Truthy(result.AccessToken) \/ ~Truthy(result.IdToken)
       \/ ~Truthy(result.RefreshToken)
    THEN [kind |-> "thrown", message |-> InvalidAuthResult]
    ELSE [kind |-> "returned",
          value |-> [accessToken |-> result.AccessToken,
                     idToken |-> result.IdToken,
                     refreshToken |-> result.RefreshToken,
                     expiresIn |-> result.ExpiresIn,
                     tokenType |-> OrElse(result.TokenType, Bearer)]]

\* lines 27-39 of the mapper
mapAuthResult(result) ==
    IF ~Truthy(result.AccessToken) \/ ~Truthy(result.IdToken)
       \/ ~Truthy(result.RefreshToken) \/ ~TruthyNumber(result.ExpiresIn)
    THEN [kind |-> "thrown", message |-> InvalidAuthResult]
    ELSE [kind |-> "returned",
          value |-> [accessToken |-> result.AccessToken,
                     idToken |-> result.IdToken,
                     refreshToken |-> result.RefreshToken,
                     expiresIn |-> result.ExpiresIn,
                     tokenType |-> OrElse(result.TokenType, Bearer)]]

InvalidAdminGetUser == "Invalid AdminGetUser response from Cognito"

\* mapAdminGetUserResponse, but passing UserStatus through as it came
mapAdminGetUserResponse_rawStatus(result, t1, t2) ==
    IF ~Truthy(result.Username)
    THEN [kind |-> "thrown", message |-> InvalidAdminGetUser]
    ELSE [kind |-> "returned",
          value |-> [username |-> result.Username,
                     userCreateDate |-> IF result.UserCreateDate # NoDate
                                        THEN result.UserCreateDate ELSE t1,
                     userLastModifiedDate |-> IF result.UserLastModifiedDate # NoDate
                                              THEN result.UserLastModifiedDate ELSE t2,
                     enabled |-> ("Enabled" \in DOMAIN result /\ result.Enabled),
                     userStatus |-> result.UserStatus,
                     userAttributes |-> mapAttributes(result.UserAttributes),
                     mfaOptions |->
                         IF result.MFAOptions = UndefinedList THEN UndefinedList
                         ELSE [i \in DOMAIN result.MFAOptions |->
                                  [deliveryMedium |->
                                       OrElse(result.MFAOptions[i].DeliveryMedium, <<>>),
                                   attributeName |->
                                       OrElse(result.MFAOptions[i].AttributeName, <<>>)]],
                     preferredMfaSetting |-> result.PreferredMfaSetting,
                     userMfaSettingList |-> result.UserMFASettingList]]

\* lines 127-153 of the mapper; an absent Enabled is a record without that
\* field, t1 and t2 are the readings of the two new Date() fallbacks
mapAdminGetUserResponse(result, t1, t2) ==
    IF ~Truthy(result.Username)
    THEN [kind |-> "thrown", message |-> InvalidAdminGetUser]
    ELSE [kind |-> "returned",
          value |-> [username |-> result.Username,
                     userCreateDate |-> IF result.UserCreateDate # NoDate
                                        THEN result.UserCreateDate ELSE t1,
                     userLastModifiedDate |-> IF result.UserLastModifiedDate # NoDate
                                              THEN result.UserLastModifiedDate ELSE t2,
                     enabled |-> ("Enabled" \in DOMAIN result /\ result.Enabled),
                     userStatus |-> OrElse(result.UserStatus, <<>>),
                     userAttributes |-> mapAttributes(result.UserAttributes),
                     mfaOptions |->
                         IF result.MFAOptions = UndefinedList THEN UndefinedList
                         ELSE [i \in DOMAIN result.MFAOptions |->
                                  [deliveryMedium |->
                                       OrElse(result.MFAOptions[i].DeliveryMedium, <<>>),
                                   attributeName |->
                                       OrElse(result.MFAOptions[i].AttributeName, <<>>)]],
                     preferredMfaSetting |-> result.PreferredMfaSetting,
                     userMfaSettingList |-> result.UserMFASettingList]]

InvalidAdminCreateUser == "Invalid AdminCreateUser response from Cognito"
Sub == <<"s","u","b">>
Password == <<"p","a","s","s","w","o","r","d">>

\* attributes.key || d
attributeOr(attributes, key, d) ==
    IF hasKey(attributes, key) THEN OrElse(lookup(attributes, key), d) ELSE d

\* lines 99-120 of the mapper; t1 and t2 are the readings of the two
\* new Date() fallbacks
mapAdminCreateUserResponse(response_, t1, t2) ==
    IF response_.User = NoObject
    THEN [kind |-> "thrown", message |-> InvalidAdminCreateUser]
    ELSE LET User == response_.User
             attributes == mapAttributes(User.Attributes)
         IN  [kind |-> "returned",
              value |-> [userId |-> OrElse(User.Username, <<>>),
                         userSub |-> attributeOr(attributes, Sub, <<>>),
                         userCreateDate |-> IF User.UserCreateDate # NoDate
                                            THEN User.UserCreateDate ELSE t1,
                         userLastModifiedDate |->
                             IF User.UserLastModifiedDate # NoDate
                             THEN User.UserLastModifiedDate ELSE t2,
                         enabled |-> ("Enabled" \in DOMAIN User /\ User.Enabled),
                         userStatus |-> OrElse(User.UserStatus, <<>>),
                         temporaryPassword |->
                             attributeOr(attributes, Password, Undefined)]]

---------------------------------------------------------------------------
(* The token utility.                                                      *)

BearerSpace == Bearer \o <<" ">>

\* extractAccessToken, but recognising the prefix without its space
extractAccessToken_bearerOnly(authHeader) ==
    IF ~Truthy(authHeader) THEN <<>>
    ELSE IF startsWith(authHeader, Bearer) THEN slice(authHeader, 7)
    ELSE authHeader

extractAccessToken(authHeader) ==
    IF ~Truthy(authHeader) THEN <<>>
    ELSE IF startsWith(authHeader, BearerSpace) THEN slice(authHeader, 7)
    ELSE authHeader

---------------------------------------------------------------------------
(* Error normalisation.  A JavaScript value that can be thrown is a record *)
(* tagged with its type; an object's or an Error's optional fields code,   *)
(* name and message are fields the record has or has not, and an object    *)
(* that refers to itself is marked circular.  Messages are strings.        *)

Returned(v) == [kind |-> "returned", value |-> v]
Pending == [kind |-> "pending"]

UnknownError == "UnknownError"
CircularStructure ==
    [kind |-> "thrown", name |-> "TypeError",
     message |-> "Converting circular structure to JSON"]

\* obj.f || d
fieldOr(obj, f, d) == IF f \in DOMAIN obj /\ obj[f] # "" THEN obj[f] ELSE d

\* String(error)
String(error) ==
    CASE error.type = "undefined" -> "undefined"
      [] error.type = "null" -> "null"
      [] error.type = "string" -> error.text
      [] error.type = "number" -> ToString(error.number)
      [] error.type = "object" -> "[object Object]"
      [] error.type = "Error" ->
            IF error.message = "" THEN error.name
            ELSE error.name \o ": " \o error.message

\* the members of JSON.stringify(obj), in the order code, name, message
RECURSIVE members(_, _)
members(obj, fields) ==
    IF fields = <<>> THEN <<>>
    ELSE LET f == Head(fields)
         IN  (IF f \in DOMAIN obj
              THEN <<"\"" \o f \o "\":\"" \o obj[f] \o "\"">>
              ELSE <<>>) \o members(obj, Tail(fields))

RECURSIVE join(_, _)
join(parts, separator) ==
    IF parts = <<>> THEN ""
    ELSE IF Len(parts) = 1 THEN Head(parts)
    ELSE Head(parts) \o separator \o join(Tail(parts), separator)

\* JSON.stringify(obj) of a serialisable object
stringify(obj) == "{" \o join(members(obj, <<"code", "name", "message">>), ",") \o "}"

\* lines 160-184 of the mapper
formatError(error) ==
    IF error.type = "Error"
    THEN Returned([code |-> fieldOr(error, "code", UnknownError),
                   name |-> error.name,
                   message |-> error.message])
    ELSE IF error.type = "object"
    THEN IF fieldOr(error, "message", "") = "" /\ error.circular
         THEN CircularStructure
         ELSE Returned([code |-> fieldOr(error, "code", UnknownError),
                        name |-> fieldOr(error, "name", UnknownError),
                        message |-> fieldOr(error, "message", stringify(error))])
    ELSE Returned([code |-> UnknownError, name |-> UnknownError,
                   message |-> String(error)])

\* CognitoUserClient.getErrorInfo
getErrorInfo(error) ==
    IF error.type = "Error"
    THEN Returned([code |-> UnknownError,
                   name |-> error.name,
                   message |-> error.message])
    ELSE Returned([code |-> UnknownError, name |-> "Error",
                   message |-> String(error)])

\* CognitoAdminClient.getErrorInfo
adminGetErrorInfo(error) ==
    IF error.type = "Error"
    THEN Returned([code |-> UnknownError,
                   name |-> error.name,
                   message |-> error.message])
    ELSE Returned([code |-> UnknownError, name |-> "Error",
                   message |-> String(error)])

---------------------------------------------------------------------------
(* Inputs.                                                                 *)

Dates == {0, 5}
Clock == {10, 11}

SeqsUpTo(S, n) == UNION {[1..k -> S] : k \in 0..n}

Alphabet == {"r", "R", "_", "-", ":", "."}
ListAlphabet == {"r", "R", "_"}
Prefixes == {<<>>, Custom, CustomColon}

Email == <<"e","m","a","i","l">>
PhoneNumber == <<"p","h","o","n","e","_","n","u","m","b","e","r">>
DeviceName == <<"d","e","v","i","c","e","_","n","a","m","e">>
CustomRole == <<"c","u","s","t","o","m",":","r","o","l","e">>
ExampleNames == {Email, PhoneNumber, DeviceName, CustomRole}

NamesOver(A, n) == {p \o s : p \in Prefixes, s \in SeqsUpTo(A, n)}
Names == NamesOver(Alphabet, MaxSuffix) \cup ExampleNames
\* inside longer lists: a prefix and at most one more character
ListNames == {p \o s : p \in Prefixes, s \in {<<>>} \cup {<<c>> : c \in ListAlphabet}}

Values == {<<>>, <<"v">>, <<"w">>}

Attrs(names) == [Name : names \cup {Undefined}, Value : Values \cup {Undefined}]
AttributeLists ==
    {<<a>> : a \in Attrs(Names)} \cup SeqsUpTo(Attrs(ListNames), MaxAttrs)

uniqueKeys(m) == \A i, j \in DOMAIN m : m[i].key = m[j].key => i = j
Entries(names) == [key : names, value : Values]
Mappings ==
    {<<e>> : e \in Entries(Names \cup {toUpperCase(<<n[1]>>) \o slice(n, 1) : n \in ExampleNames})}
    \cup {m \in SeqsUpTo(Entries(ListNames), MaxAttrs) : uniqueKeys(m)}

Tokens == {Undefined, <<>>, <<"t">>, <<"u">>}
TokenTypes == {Undefined, <<>>, Bearer, <<"M">>}
Expiries == {NoNumber, 0, 1, 3600}
AuthenticationResults ==
    [AccessToken : Tokens, IdToken : Tokens, RefreshToken : Tokens,
     ExpiresIn : Expiries, TokenType : TokenTypes]

NotAuthorizedException == "NotAuthorizedException"
IncorrectUsernameOrPassword == "Incorrect username or password"
Codes == {"", NotAuthorizedException}
ErrorNames == {"", NotAuthorizedException}
Messages == {"", IncorrectUsernameOrPassword}
Numbers == {-1, 0, 42}

\* every way of giving obj some of the fields code, name and message
withFields(obj) ==
    {((obj @@ c) @@ n) @@ m :
        c \in {obj} \cup {[code |-> x] : x \in Codes},
        n \in {obj} \cup {[name |-> x] : x \in ErrorNames},
        m \in {obj} \cup {[message |-> x] : x \in Messages}}

Primitives ==
    {[type |-> "undefined"], [type |-> "null"]}
    \cup {[type |-> "string", text |-> x] : x \in Messages}
    \cup {[type |-> "number", number |-> n] : n \in Numbers}
ErrorInstances ==
    LET errors == [type : {"Error"}, name : {"Error", NotAuthorizedException},
                   message : Messages]
    IN  errors \cup {e @@ [code |-> c] : e \in errors, c \in Codes}
Objects ==
    UNION {withFields([type |-> "object", circular |-> b]) : b \in BOOLEAN}
ErrorValues == Primitives \cup ErrorInstances \cup Objects

HeaderAlphabet == {"t", " ", "B"}
HeaderPrefixes ==
    {<<>>, BearerSpace, Bearer, toLowerCase(BearerSpace), <<" ">> \o BearerSpace,
     BearerSpace \o BearerSpace}
AuthHeaders ==
    {Undefined} \cup {p \o t : p \in HeaderPrefixes, t \in SeqsUpTo(HeaderAlphabet, MaxSuffix)}

MFAOptionTypes ==
    [DeliveryMedium : {Undefined, <<"S","M","S">>}, AttributeName : {Undefined, PhoneNumber}]
UserAttributeLists ==
    {UndefinedList,
     <<[Name |-> Email, Value |-> <<"v">>], [Name |-> CustomRole, Value |-> <<"w">>]>>}
AdminGetUserResponsesWithoutEnabled ==
    [Username : {Undefined, <<>>, <<"u">>},
     UserCreateDate : {NoDate, 5},
     UserLastModifiedDate : {NoDate, 5},
     UserStatus : {Undefined, <<>>, <<"C">>},
     UserAttributes : UserAttributeLists,
     MFAOptions : {UndefinedList} \cup SeqsUpTo(MFAOptionTypes, MaxAttrs),
     PreferredMfaSetting : {Undefined, <<"S">>},
     UserMFASettingList : {Undefined, <<"S">>}]
AdminGetUserResponses ==
    AdminGetUserResponsesWithoutEnabled
    \cup {r @@ [Enabled |-> e] : r \in AdminGetUserResponsesWithoutEnabled, e \in BOOLEAN}

---------------------------------------------------------------------------
(* Applying the mapper functions: the argument is drawn initially, the     *)
(* action applies the function to it.                                      *)

ApplyMapAttributes ==
    /\ fn = "mapAttributes"
    /\ ret = Pending
    /\ ret' = Returned(mapAttributes(arg))
    /\ UNCHANGED <<fn, arg>>
    /\ UNCHANGED facadeVars

ApplyMapToAttributeList ==
    /\ fn = "mapToAttributeList"
    /\ ret = Pending
    /\ ret' = Returned(mapToAttributeList(arg))
    /\ UNCHANGED <<fn, arg>>
    /\ UNCHANGED facadeVars

ApplyMapAuthResult ==
    /\ fn = "mapAuthResult"
    /\ ret = Pending
    /\ ret' = mapAuthResult(arg)
    /\ UNCHANGED <<fn, arg>>
    /\ UNCHANGED facadeVars

ApplyMapAdminGetUserResponse ==
    /\ fn = "mapAdminGetUserResponse"
    /\ ret = Pending
    /\ \E t \in Clock, t1, t2 \in 0..1 :
          /\ t1 <= t2
          /\ ret' = mapAdminGetUserResponse(arg, t + t1, t + t2)
    /\ UNCHANGED <<fn, arg>>
    /\ UNCHANGED facadeVars

ApplyExtractAccessToken ==
    /\ fn = "extractAccessToken"
    /\ ret = Pending
    /\ ret' = Returned(extractAccessToken(arg))
    /\ UNCHANGED <<fn, arg>>
    /\ UNCHANGED facadeVars

ErrorNormalisers == {"formatError", "getErrorInfo", "adminGetErrorInfo"}

ApplyFormatError ==
    /\ fn = "formatError"
    /\ ret = Pending
    /\ ret' = formatError(arg)
    /\ UNCHANGED <<fn, arg>>
    /\ UNCHANGED facadeVars

ApplyGetErrorInfo ==
    /\ fn = "getErrorInfo"
    /\ ret = Pending
    /\ ret' = getErrorInfo(arg)
    /\ UNCHANGED <<fn, arg>>
    /\ UNCHANGED facadeVars

ApplyAdminGetErrorInfo ==
    /\ fn = "adminGetErrorInfo"
    /\ ret = Pending
    /\ ret' = adminGetErrorInfo(arg)
    /\ UNCHANGED <<fn, arg>>
    /\ UNCHANGED facadeVars

MapperIdle ==
    /\ fn = "none"
    /\ arg = <<>>
    /\ ret = [kind |-> "none"]

MapperInputs ==
    /\ \/ fn = "mapAttributes" /\ arg \in AttributeLists \cup {UndefinedList}
       \/ fn = "mapToAttributeList" /\ arg \in Mappings
       \/ fn = "mapAuthResult" /\ arg \in AuthenticationResults
       \/ fn = "mapAdminGetUserResponse" /\ arg \in AdminGetUserResponses
       \/ fn \in ErrorNormalisers /\ arg \in ErrorValues
       \/ fn = "extractAccessToken" /\ arg \in AuthHeaders
    /\ ret = Pending

\* the reference the constructor stores in this.client
ProviderClient == "CognitoIdentityProviderClient"

FacadeIdle ==
    /\ op = "none"
    /\ params = [none |-> TRUE]
    /\ pc = "idle"
    /\ sent = <<>>
    /\ response = [kind |-> "none"]
    /\ outcome = [kind |-> "none"]
    /\ now = 0
    /\ config = [region |-> "r", userPoolId |-> <<"p">>, clientId |-> <<"c">>]
    /\ replies = <<>>
    /\ createUserResult = NoObject
    /\ client = ProviderClient

InitMapper == MapperInputs /\ FacadeIdle /\ calls = <<>> /\ throwOriginalErrors = FALSE

NextMapper ==
    \/ ApplyMapAttributes
    \/ ApplyMapToAttributeList
    \/ ApplyMapAuthResult
    \/ ApplyMapAdminGetUserResponse
    \/ ApplyFormatError
    \/ ApplyGetErrorInfo
    \/ ApplyAdminGetErrorInfo
    \/ ApplyExtractAccessToken

SpecMapper == InitMapper /\ [][NextMapper]_vars

---------------------------------------------------------------------------
(* The facade operations.  An invocation builds its request and sends it   *)
(* (pc = "awaiting"), the provider answers or fails it (pc = "settling"),  *)
(* and the invocation resumes after its await and settles.                 *)

Resolved(v) == [kind |-> "resolved", value |-> v]
Rejected(e) == [kind |-> "rejected", error |-> e]
\* new Error(message)
Error(m) == [type |-> "Error", name |-> "Error", message |-> m]

\* await this.client.send(command) throws what the provider rejected with
awaitSend(resp, continuation) ==
    IF resp.kind = "failure" THEN Rejected(resp.error) ELSE continuation

NoAuthResultOnRefresh == "Failed to refresh token: No authentication result returned"
NoDeviceReturned == "Failed to get device: No device information returned"
NoGroupOnCreate == "Failed to create group: No group information returned"
NoGroupOnGet == "Failed to get group: No group information returned"
NoGroupOnUpdate == "Failed to update group: No group information returned"

\* refreshToken, but mapping the AuthenticationResult as the provider sent it
refreshTokenResult_asSent(refreshToken, resp) ==
    awaitSend(resp,
        IF resp.body.AuthenticationResult = NoObject
        THEN Rejected(Error(NoAuthResultOnRefresh))
        ELSE LET authResult == mapAuthResult(resp.body.AuthenticationResult)
             IN  IF authResult.kind = "thrown"
                 THEN Rejected(Error(authResult.message))
                 ELSE Resolved(authResult.value))

\* CognitoUserClient.refreshToken after its await
refreshTokenResult(refreshToken, resp) ==
    awaitSend(resp,
        IF resp.body.AuthenticationResult = NoObject
        THEN Rejected(Error(NoAuthResultOnRefresh))
        ELSE LET authResult ==
                     mapAuthResult([resp.body.AuthenticationResult
                                        EXCEPT !.RefreshToken = refreshToken])
             IN  IF authResult.kind = "thrown"
                 THEN Rejected(Error(authResult.message))
                 ELSE Resolved(authResult.value))

\* getDevice, but demanding a DeviceKey inside the container as well
getDeviceResult_keyRequired(resp, t1, t2) ==
    awaitSend(resp,
        IF resp.body.Device = NoObject \/ ~Truthy(resp.body.Device.DeviceKey)
        THEN Rejected(Error(NoDeviceReturned))
        ELSE LET device == resp.body.Device
             IN  Resolved([deviceKey |-> device.DeviceKey,
                           deviceAttributes |-> mapAttributes(device.DeviceAttributes),
                           deviceCreateDate |->
                               IF device.DeviceCreateDate # NoDate
                               THEN device.DeviceCreateDate ELSE t1,
                           deviceLastModifiedDate |->
                               IF device.DeviceLastModifiedDate # NoDate
                               THEN device.DeviceLastModifiedDate ELSE t2,
                           deviceLastAuthenticatedDate |->
                               device.DeviceLastAuthenticatedDate]))

\* CognitoUserClient.getDevice after its await; t1 and t2 are the readings
\* of the two new Date() fallbacks
getDeviceResult(resp, t1, t2) ==
    awaitSend(resp,
        IF resp.body.Device = NoObject
        THEN Rejected(Error(NoDeviceReturned))
        ELSE LET device == resp.body.Device
             IN  Resolved([deviceKey |-> OrElse(device.DeviceKey, <<>>),
                           deviceAttributes |-> mapAttributes(device.DeviceAttributes),
                           deviceCreateDate |->
                               IF device.DeviceCreateDate # NoDate
                               THEN device.DeviceCreateDate ELSE t1,
                           deviceLastModifiedDate |->
                               IF device.DeviceLastModifiedDate # NoDate
                               THEN device.DeviceLastModifiedDate ELSE t2,
                           deviceLastAuthenticatedDate |->
                               IF device.DeviceLastAuthenticatedDate # NoDate
                               THEN device.DeviceLastAuthenticatedDate ELSE NoDate]))

\* CognitoAdminClient.adminGetDevice after its await
adminGetDeviceResult(resp, t1, t2) ==
    awaitSend(resp,
        IF resp.body.Device = NoObject
        THEN Rejected(Error(NoDeviceReturned))
        ELSE LET device == resp.body.Device
             IN  Resolved([deviceKey |-> OrElse(device.DeviceKey, <<>>),
                           deviceAttributes |-> mapAttributes(device.DeviceAttributes),
                           deviceCreateDate |->
                               IF device.DeviceCreateDate # NoDate
                               THEN device.DeviceCreateDate ELSE t1,
                           deviceLastModifiedDate |->
                               IF device.DeviceLastModifiedDate # NoDate
                               THEN device.DeviceLastModifiedDate ELSE t2,
                           deviceLastAuthenticatedDate |->
                               IF device.DeviceLastAuthenticatedDate # NoDate
                               THEN device.DeviceLastAuthenticatedDate ELSE NoDate]))

\* CognitoAdminClient.createGroup after its await
createGroupResult(resp) ==
    awaitSend(resp,
        IF resp.body.Group = NoObject
        THEN Rejected(Error(NoGroupOnCreate))
        ELSE LET group == resp.body.Group
             IN  Resolved([groupName |-> OrElse(group.GroupName, <<>>),
                           description |-> group.Description,
                           userPoolId |-> OrElse(group.UserPoolId, <<>>),
                           precedence |-> group.Precedence,
                           roleArn |-> group.RoleArn,
                           lastModifiedDate |->
                               IF group.LastModifiedDate # NoDate
                               THEN group.LastModifiedDate ELSE NoDate,
                           creationDate |->
                               IF group.CreationDate # NoDate
                               THEN group.CreationDate ELSE NoDate]))

\* CognitoAdminClient.getGroup after its await
getGroupResult(resp) ==
    awaitSend(resp,
        IF resp.body.Group = NoObject
        THEN Rejected(Error(NoGroupOnGet))
        ELSE LET group == resp.body.Group
             IN  Resolved([groupName |-> OrElse(group.GroupName, <<>>),
                           description |-> group.Description,
                           userPoolId |-> OrElse(group.UserPoolId, <<>>),
                           precedence |-> group.Precedence,
                           roleArn |-> group.RoleArn,
                           lastModifiedDate |->
                               IF group.LastModifiedDate # NoDate
                               THEN group.LastModifiedDate ELSE NoDate,
                           creationDate |->
                               IF group.CreationDate # NoDate
                               THEN group.CreationDate ELSE NoDate]))

\* updateGroup, but taking a falsy precedence for an absent one
updateGroupResult_truthyPrecedence(resp) ==
    awaitSend(resp,
        IF resp.body.Group = NoObject
        THEN Rejected(Error(NoGroupOnUpdate))
        ELSE LET group == resp.body.Group
             IN  Resolved([groupName |-> OrElse(group.GroupName, <<>>),
                           description |-> group.Description,
                           userPoolId |-> OrElse(group.UserPoolId, <<>>),
                           precedence |->
                          IF TruthyNumber(group.Precedence)
                          THEN group.Precedence ELSE NoNumber,
                           roleArn |-> group.RoleArn,
                           lastModifiedDate |->
                               IF group.LastModifiedDate # NoDate
                               THEN group.LastModifiedDate ELSE NoDate,
                           creationDate |->
                               IF group.CreationDate # NoDate
                               THEN group.CreationDate ELSE NoDate]))

\* CognitoAdminClient.updateGroup after its await
updateGroupResult(resp) ==
    awaitSend(resp,
        IF resp.body.Group = NoObject
        THEN Rejected(Error(NoGroupOnUpdate))
        ELSE LET group == resp.body.Group
             IN  Resolved([groupName |-> OrElse(group.GroupName, <<>>),
                           description |-> group.Description,
                           userPoolId |-> OrElse(group.UserPoolId, <<>>),
                           precedence |-> group.Precedence,
                           roleArn |-> group.RoleArn,
                           lastModifiedDate |->
                               IF group.LastModifiedDate # NoDate
                               THEN group.LastModifiedDate ELSE NoDate,
                           creationDate |->
                               IF group.CreationDate # NoDate
                               THEN group.CreationDate ELSE NoDate]))

NoAuthResultOnSignIn == "Authentication failed: No authentication result returned"
NoAuthResultOnChallenge ==
    "Authentication challenge failed: No authentication result returned"
NoAccessToken == "No access token provided in authorization header"
InvalidGetUser == "Failed to get user: Invalid response from Cognito"

\* return mapAuthResult(response.AuthenticationResult)
returnAuthResult(authenticationResult) ==
    LET authResult == mapAuthResult(authenticationResult)
    IN  IF authResult.kind = "thrown"
        THEN Rejected(Error(authResult.message))
        ELSE Resolved(authResult.value)

\* signIn after its await
signInResult(resp) ==
    awaitSend(resp,
        IF resp.body.AuthenticationResult = NoObject
        THEN Rejected(Error(NoAuthResultOnSignIn))
        ELSE returnAuthResult(resp.body.AuthenticationResult))

\* respondToNewPasswordChallenge after its await
respondToNewPasswordChallengeResult(resp) ==
    awaitSend(resp,
        IF resp.body.AuthenticationResult = NoObject
        THEN Rejected(Error(NoAuthResultOnChallenge))
        ELSE returnAuthResult(resp.body.AuthenticationResult))

\* getMe after its await
getMeResult(resp) ==
    awaitSend(resp,
        IF ~Truthy(resp.body.Username) \/ resp.body.UserAttributes = UndefinedList
        THEN Rejected(Error(InvalidGetUser))
        ELSE Resolved([username |-> resp.body.Username,
                       attributes |-> mapAttributes(resp.body.UserAttributes)]))

\* updateMe and deleteMe after their await
updateMeResult(resp) == awaitSend(resp, Resolved(TRUE))
deleteMeResult(resp) == awaitSend(resp, Resolved(TRUE))

---------------------------------------------------------------------------
(* Inputs of the facade operations and answers of the provider.            *)

Authorizations ==
    {Undefined, <<>>, BearerSpace, BearerSpace \o <<"t">>, <<"t">>, Bearer}
Credentials == [username : {<<"u">>}, password : {<<"s">>, <<>>}]
ChallengeParams ==
    [challengeName : {<<"N">>}, username : {<<"u">>}, newPassword : {<<"n">>},
     session : {<<"e">>, <<>>}]
UpdatedAttributes ==
    {<<>>, <<[key |-> <<"n","a","m","e">>, value |-> <<"v">>]>>}
EmptyBody == [metadata |-> TRUE]

CallerTokens == {<<>>, <<"t">>, <<"o">>}
DeviceKeys == {<<"k">>, <<"j">>}
GroupNames == {<<"g">>}

DeviceAttributeLists ==
    {UndefinedList} \cup SeqsUpTo(Attrs({DeviceName}), 1)
Devices ==
    [DeviceKey : {Undefined, <<>>, <<"k">>},
     DeviceAttributes : DeviceAttributeLists,
     DeviceCreateDate : Dates \cup {NoDate},
     DeviceLastModifiedDate : Dates \cup {NoDate},
     DeviceLastAuthenticatedDate : Dates \cup {NoDate}]
Groups ==
    [GroupName : {Undefined, <<>>, <<"g">>},
     Description : {Undefined, <<"d">>},
     UserPoolId : {Undefined, <<"p">>},
     Precedence : {NoNumber, 0, 1},
     RoleArn : {Undefined, <<"a">>},
     LastModifiedDate : Dates \cup {NoDate},
     CreationDate : Dates \cup {NoDate}]

CreatedUsersWithoutEnabled ==
    [Username : {Undefined, <<"u">>},
     Attributes : {UndefinedList, <<[Name |-> Sub, Value |-> <<"1">>]>>},
     UserCreateDate : {NoDate, 5},
     UserLastModifiedDate : {5},
     UserStatus : {Undefined, <<"F">>}]
CreatedUsers ==
    CreatedUsersWithoutEnabled
    \cup {u @@ [Enabled |-> e] : u \in CreatedUsersWithoutEnabled, e \in BOOLEAN}
GotUsersWithoutEnabled ==
    [Username : {Undefined, <<>>, <<"u">>},
     UserCreateDate : {NoDate, 5},
     UserLastModifiedDate : {5},
     UserStatus : {Undefined, <<"C">>},
     UserAttributes : UserAttributeLists,
     MFAOptions : {UndefinedList},
     PreferredMfaSetting : {Undefined},
     UserMFASettingList : {Undefined}]
GotUsers ==
    GotUsersWithoutEnabled \cup {u @@ [Enabled |-> TRUE] : u \in GotUsersWithoutEnabled}

CreateUserParams ==
    [username : {<<"u">>}, email : {<<"e">>}, password : {Undefined, <<>>, <<"s">>},
     phone : {Undefined, <<"1">>}, temporaryPassword : {Undefined},
     messageAction : {Undefined}, attributes : UpdatedAttributes]

\* the attribute list createUser sends
createUserAttributes(p) ==
    (<<[Name |-> Email, Value |-> p.email],
       [Name |-> <<"e","m","a","i","l","_","v","e","r","i","f","i","e","d">>,
        Value |-> <<"t","r","u","e">>]>>
     \o (IF Truthy(p.phone) THEN <<[Name |-> PhoneNumber, Value |-> p.phone]>> ELSE <<>>))
    \o mapToAttributeList(p.attributes)

\* AdminInitiateAuth and AdminRespondToAuthChallenge answer with tokens, with
\* a challenge, or with both absent
AdminAuthenticationResults ==
    [AccessToken : {Undefined, <<"t">>}, IdToken : {<<"t">>},
     RefreshToken : {<<>>, <<"u">>}, ExpiresIn : {0, 3600},
     TokenType : {Undefined, <<"M">>}]
AdminAuthBodies ==
    [AuthenticationResult : AdminAuthenticationResults \cup {NoObject},
     ChallengeName : {Undefined, <<"N">>},
     Session : {Undefined, <<"e">>},
     ChallengeParameters : {NoObject, [USER_ID_FOR_SRP |-> <<"u">>]}]

\* the entries of Users in a response to ListUsers and ListUsersInGroup
ListedUsersWithoutEnabled ==
    [Username : {Undefined, <<>>, <<"u">>, <<"v">>},
     Attributes : {UndefinedList},
     UserCreateDate : {NoDate, 5},
     UserLastModifiedDate : {5},
     UserStatus : {<<"C">>},
     MFAOptions : {UndefinedList}]
ListedUsers ==
    ListedUsersWithoutEnabled
    \cup {[u EXCEPT !.MFAOptions =
                 <<[DeliveryMedium |-> <<"S","M","S">>, AttributeName |-> PhoneNumber]>>]
            @@ [Enabled |-> TRUE] : u \in ListedUsersWithoutEnabled}
UserLists == {UndefinedList} \cup SeqsUpTo(ListedUsers, 2)

ProviderErrors ==
    {[type |-> "object", circular |-> FALSE,
      name |-> "NotAuthorizedException", message |-> "Invalid refresh token",
      code |-> "NotAuthorizedException"],
     [type |-> "Error",
      name |-> "ResourceNotFoundException", message |-> "Not found",
      code |-> "ResourceNotFoundException"]}

\* the response bodies the provider can give to a command
Bodies(command) ==
    CASE command \in {"InitiateAuthCommand", "RespondToAuthChallengeCommand"} ->
            [AuthenticationResult : AuthenticationResults \cup {NoObject}]
      [] command = "GetUserCommand" ->
            [Username : {Undefined, <<>>, <<"u">>}, UserAttributes : UserAttributeLists]
      [] command \in {"UpdateUserAttributesCommand", "DeleteUserCommand",
                       "AdminSetUserPasswordCommand"} ->
            {EmptyBody}
      [] command = "AdminCreateUserCommand" -> [User : CreatedUsers \cup {NoObject}]
      [] command \in {"AdminInitiateAuthCommand", "AdminRespondToAuthChallengeCommand"} ->
            AdminAuthBodies
      [] command = "ListUsersCommand" ->
            [Users : UserLists, PaginationToken : {Undefined, <<"p">>}]
      [] command = "ListUsersInGroupCommand" ->
            [Users : UserLists, NextToken : {Undefined, <<"p">>}]
      [] command \in {"GetDeviceCommand", "AdminGetDeviceCommand"} ->
            [Device : Devices \cup {NoObject}]
      [] command \in {"CreateGroupCommand", "GetGroupCommand", "UpdateGroupCommand"} ->
            [Group : Groups \cup {NoObject}]

\* this.client.send(new Command(input)), up to the await
send(name, p, command, input) ==
    /\ op' = name
    /\ params' = p
    /\ sent' = Append(sent, [command |-> command, input |-> input])
    /\ pc' = "awaiting"
    /\ UNCHANGED <<response, outcome, now, config, replies, throwOriginalErrors,
                 createUserResult>>
    /\ UNCHANGED mapperVars
    /\ UNCHANGED concurrentVars

\* a continuation that is never run: the invocation stays suspended
settle_neverResumes(name, result) ==
    /\ pc = "settling"
    /\ op = name
    /\ outcome' = outcome
    /\ pc' = pc
    /\ UNCHANGED <<op, params, sent, response, config, replies, throwOriginalErrors,
                 createUserResult>>
    /\ UNCHANGED mapperVars
    /\ UNCHANGED concurrentVars

\* the invocation resumes after the await and settles with result
settle(name, result) ==
    /\ pc = "settling"
    /\ op = name
    /\ outcome' = result
    /\ pc' = IF result.kind = "resolved" THEN "resolved" ELSE "rejected"
    /\ UNCHANGED <<op, params, sent, response, config, replies, throwOriginalErrors,
                 createUserResult>>
    /\ UNCHANGED mapperVars
    /\ UNCHANGED concurrentVars

\* the provider completes the request it was sent
ProviderAnswers ==
    /\ pc = "awaiting"
    /\ \E body \in Bodies(sent[Len(sent)].command) :
          response' = [kind |-> "answer", body |-> body]
    /\ replies' = Append(replies, response')
    /\ pc' = "settling"
    /\ UNCHANGED <<op, params, sent, outcome, now, config, throwOriginalErrors,
                 createUserResult>>
    /\ UNCHANGED mapperVars
    /\ UNCHANGED concurrentVars

ProviderFails ==
    /\ pc = "awaiting"
    /\ \E e \in ProviderErrors : response' = [kind |-> "failure", error |-> e]
    /\ replies' = Append(replies, response')
    /\ pc' = "settling"
    /\ UNCHANGED <<op, params, sent, outcome, now, config, throwOriginalErrors,
                 createUserResult>>
    /\ UNCHANGED mapperVars
    /\ UNCHANGED concurrentVars

refreshToken ==
    /\ pc = "idle"
    /\ \E refreshToken_ \in CallerTokens :
            send("refreshToken", [refreshToken |-> refreshToken_],
                 "InitiateAuthCommand",
                 [AuthFlow |-> "REFRESH_TOKEN_AUTH",
                  ClientId |-> config.clientId,
                  AuthParameters |-> [REFRESH_TOKEN |-> refreshToken_]])

refreshTokenResumes ==
    /\ settle("refreshToken", refreshTokenResult(params.refreshToken, response))
    /\ UNCHANGED now

getDevice ==
    /\ pc = "idle"
    /\ \E accessToken \in {<<"t">>}, deviceKey \in DeviceKeys :
            send("getDevice", [accessToken |-> accessToken, deviceKey |-> deviceKey],
                 "GetDeviceCommand",
                 [AccessToken |-> accessToken, DeviceKey |-> deviceKey])

getDeviceResumes ==
    \E t \in Clock, t1, t2 \in 0..1 :
        /\ t1 <= t2
        /\ now' = t
        /\ settle("getDevice", getDeviceResult(response, t + t1, t + t2))

adminGetDevice ==
    /\ pc = "idle"
    /\ \E username \in {<<"u">>}, deviceKey \in DeviceKeys :
            send("adminGetDevice", [username |-> username, deviceKey |-> deviceKey],
                 "AdminGetDeviceCommand",
                 [UserPoolId |-> config.userPoolId, Username |-> username,
                  DeviceKey |-> deviceKey])

adminGetDeviceResumes ==
    \E t \in Clock, t1, t2 \in 0..1 :
        /\ t1 <= t2
        /\ now' = t
        /\ settle("adminGetDevice", adminGetDeviceResult(response, t + t1, t + t2))

GroupParams ==
    [groupName : GroupNames, description : {Undefined, <<"d">>},
     precedence : {NoNumber, 1}, roleArn : {Undefined}]

createGroup ==
    /\ pc = "idle"
    /\ \E p \in GroupParams :
            send("createGroup", p, "CreateGroupCommand",
                 [UserPoolId |-> config.userPoolId, GroupName |-> p.groupName,
                  Description |-> p.description, Precedence |-> p.precedence,
                  RoleArn |-> p.roleArn])

createGroupResumes ==
    /\ settle("createGroup", createGroupResult(response))
    /\ UNCHANGED now

getGroup ==
    /\ pc = "idle"
    /\ \E groupName \in GroupNames :
            send("getGroup", [groupName |-> groupName], "GetGroupCommand",
                 [UserPoolId |-> config.userPoolId, GroupName |-> groupName])

getGroupResumes ==
    /\ settle("getGroup", getGroupResult(response))
    /\ UNCHANGED now

updateGroup ==
    /\ pc = "idle"
    /\ \E p \in GroupParams :
            send("updateGroup", p, "UpdateGroupCommand",
                 [UserPoolId |-> config.userPoolId, GroupName |-> p.groupName,
                  Description |-> p.description, Precedence |-> p.precedence,
                  RoleArn |-> p.roleArn])

updateGroupResumes ==
    /\ settle("updateGroup", updateGroupResult(response))
    /\ UNCHANGED now

\* the invocation throws before its first request
throwBeforeSend(name, p, error) ==
    /\ op' = name
    /\ params' = p
    /\ outcome' = Rejected(error)
    /\ pc' = "rejected"
    /\ UNCHANGED <<sent, response, now, config, replies, throwOriginalErrors,
                 createUserResult>>
    /\ UNCHANGED mapperVars
    /\ UNCHANGED concurrentVars

signIn ==
    /\ pc = "idle"
    /\ \E p \in Credentials :
            send("signIn", p, "InitiateAuthCommand",
                 [AuthFlow |-> "USER_PASSWORD_AUTH",
                  ClientId |-> config.clientId,
                  AuthParameters |-> [USERNAME |-> p.username, PASSWORD |-> p.password]])

\* signIn, but sending its request again when it has failed
signInResumes_retries ==
    /\ pc = "settling"
    /\ op = "signIn"
    /\ IF response.kind = "failure" /\ Len(sent) = 1
       THEN /\ sent' = Append(sent, sent[1])
            /\ pc' = "awaiting"
            /\ UNCHANGED <<op, params, response, outcome, now, config, replies,
                           throwOriginalErrors, createUserResult>>
            /\ UNCHANGED mapperVars
            /\ UNCHANGED concurrentVars
       ELSE /\ settle("signIn", signInResult(response))
            /\ UNCHANGED now

signInResumes ==
    /\ settle("signIn", signInResult(response))
    /\ UNCHANGED now

respondToNewPasswordChallenge ==
    /\ pc = "idle"
    /\ \E p \in ChallengeParams :
            send("respondToNewPasswordChallenge", p, "RespondToAuthChallengeCommand",
                 [ClientId |-> config.clientId,
                  ChallengeName |-> p.challengeName,
                  Session |-> p.session,
                  ChallengeResponses |->
                      [USERNAME |-> p.username, NEW_PASSWORD |-> p.newPassword]])

respondToNewPasswordChallengeResumes ==
    /\ settle("respondToNewPasswordChallenge",
              respondToNewPasswordChallengeResult(response))
    /\ UNCHANGED now

getMe ==
    /\ pc = "idle"
    /\ \E authorization \in Authorizations :
          LET accessToken == extractAccessToken(authorization)
              p == [authorization |-> authorization]
          IN  IF ~Truthy(accessToken)
              THEN throwBeforeSend("getMe", p, Error(NoAccessToken))
              ELSE send("getMe", p, "GetUserCommand", [AccessToken |-> accessToken])

getMeResumes ==
    /\ settle("getMe", getMeResult(response))
    /\ UNCHANGED now

\* updateMe, but without the test of the extracted token
updateMe_sendsAnyway ==
    /\ pc = "idle"
    /\ \E authorization \in Authorizations, attributes \in UpdatedAttributes :
            send("updateMe", [authorization |-> authorization, attributes |-> attributes],
                 "UpdateUserAttributesCommand",
                 [AccessToken |-> extractAccessToken(authorization),
                  UserAttributes |-> mapToAttributeList(attributes)])

updateMe ==
    /\ pc = "idle"
    /\ \E authorization \in Authorizations, attributes \in UpdatedAttributes :
          LET accessToken == extractAccessToken(authorization)
              p == [authorization |-> authorization, attributes |-> attributes]
          IN  IF ~Truthy(accessToken)
              THEN throwBeforeSend("updateMe", p, Error(NoAccessToken))
              ELSE send("updateMe", p, "UpdateUserAttributesCommand",
                        [AccessToken |-> accessToken,
                         UserAttributes |-> mapToAttributeList(attributes)])

updateMeResumes ==
    /\ settle("updateMe", updateMeResult(response))
    /\ UNCHANGED now

\* deleteMe, but without the test of the extracted token
deleteMe_sendsAnyway ==
    /\ pc = "idle"
    /\ \E authorization \in Authorizations :
            send("deleteMe", [authorization |-> authorization], "DeleteUserCommand",
                 [AccessToken |-> extractAccessToken(authorization)])

deleteMe ==
    /\ pc = "idle"
    /\ \E authorization \in Authorizations :
          LET accessToken == extractAccessToken(authorization)
              p == [authorization |-> authorization]
          IN  IF ~Truthy(accessToken)
              THEN throwBeforeSend("deleteMe", p, Error(NoAccessToken))
              ELSE send("deleteMe", p, "DeleteUserCommand", [AccessToken |-> accessToken])

deleteMeResumes ==
    /\ settle("deleteMe", deleteMeResult(response))
    /\ UNCHANGED now

\* CognitoAdminClient.createUser of src/lib, up to its first await
adminCreateUser ==
    /\ pc = "idle"
    /\ \E p \in CreateUserParams :
            send("createUser", p, "AdminCreateUserCommand",
                 [UserPoolId |-> config.userPoolId,
                  Username |-> p.username,
                  TemporaryPassword |-> p.temporaryPassword,
                  UserAttributes |-> createUserAttributes(p),
                  MessageAction |-> p.messageAction])

\* adminCreateUserSetsPassword, but sending the password request whatever
\* became of the first request
adminCreateUserSetsPassword_unvalidated ==
    /\ pc = "settling"
    /\ op = "createUser"
    /\ Len(sent) = 1
    /\ Truthy(params.password)
    /\ createUserResult' = NoObject
    /\ sent' = Append(sent, [command |-> "AdminSetUserPasswordCommand",
                             input |-> [UserPoolId |-> config.userPoolId,
                                        Username |-> params.username,
                                        Password |-> params.password,
                                        Permanent |-> TRUE]])
    /\ pc' = "awaiting"
    /\ UNCHANGED <<op, params, response, outcome, now, config, replies,
                   throwOriginalErrors>>
    /\ UNCHANGED mapperVars
    /\ UNCHANGED concurrentVars

\* after the first await: the response is mapped and, a password being
\* given, AdminSetUserPasswordCommand is sent
adminCreateUserSetsPassword ==
    /\ pc = "settling"
    /\ op = "createUser"
    /\ Len(sent) = 1
    /\ response.kind = "answer"
    /\ Truthy(params.password)
    /\ \E t \in Clock, t1, t2 \in 0..1 :
          LET mapped == mapAdminCreateUserResponse(response.body, t + t1, t + t2)
          IN  /\ t1 <= t2
              /\ mapped.kind = "returned"
              /\ createUserResult' = mapped.value
              /\ now' = t
    /\ sent' = Append(sent, [command |-> "AdminSetUserPasswordCommand",
                             input |-> [UserPoolId |-> config.userPoolId,
                                        Username |-> params.username,
                                        Password |-> params.password,
                                        Permanent |-> TRUE]])
    /\ pc' = "awaiting"
    /\ UNCHANGED <<op, params, response, outcome, config, replies, throwOriginalErrors>>
    /\ UNCHANGED mapperVars
    /\ UNCHANGED concurrentVars

\* createUser settles: after the first await when the request failed, the
\* response is invalid or no password was given, else after the second
adminCreateUserResumes ==
    /\ pc = "settling"
    /\ op = "createUser"
    /\ \/ /\ Len(sent) = 1
          /\ \E t \in Clock, t1, t2 \in 0..1 :
                LET mapped == mapAdminCreateUserResponse(response.body, t + t1, t + t2)
                    settlesNow ==
                        IF response.kind = "failure" THEN TRUE
                        ELSE IF mapped.kind = "thrown" THEN TRUE
                        ELSE ~Truthy(params.password)
                IN  /\ t1 <= t2
                    /\ settlesNow
                    /\ now' = t
                    /\ settle("createUser",
                              awaitSend(response,
                                  IF mapped.kind = "thrown"
                                  THEN Rejected(Error(mapped.message))
                                  ELSE Resolved(mapped.value)))
       \/ /\ Len(sent) = 2
          /\ UNCHANGED now
          /\ settle("createUser", awaitSend(response, Resolved(createUserResult)))

\* initiateAuth, but demanding tokens of every response as signIn does
initiateAuthResult_requiresTokens(resp) ==
    awaitSend(resp,
        IF resp.body.AuthenticationResult = NoObject
        THEN Rejected(Error(NoAuthResultOnSignIn))
        ELSE returnAuthResult(resp.body.AuthenticationResult))

\* CognitoAdminClient.initiateAuth after its await
initiateAuthResult(resp) ==
    awaitSend(resp,
        LET result_ == [challengeName |-> resp.body.ChallengeName,
                        session |-> resp.body.Session,
                        challengeParameters |-> resp.body.ChallengeParameters]
        IN  IF resp.body.AuthenticationResult # NoObject
            THEN LET authResult == mapAuthResult(resp.body.AuthenticationResult)
                 IN  IF authResult.kind = "thrown"
                     THEN Rejected(Error(authResult.message))
                     ELSE Resolved(result_ @@ [authenticationResult |-> authResult.value])
            ELSE Resolved(result_))

\* CognitoAdminClient.respondToAuthChallenge after its await
respondToAuthChallengeResult(resp) ==
    awaitSend(resp,
        LET result_ == [challengeName |-> resp.body.ChallengeName,
                        session |-> resp.body.Session,
                        challengeParameters |-> resp.body.ChallengeParameters]
        IN  IF resp.body.AuthenticationResult # NoObject
            THEN LET authResult == mapAuthResult(resp.body.AuthenticationResult)
                 IN  IF authResult.kind = "thrown"
                     THEN Rejected(Error(authResult.message))
                     ELSE Resolved(result_ @@ [authenticationResult |-> authResult.value])
            ELSE Resolved(result_))

AdminInitiateAuthParams ==
    [username : {<<"u">>}, password : {<<"s">>}, clientMetadata : {NoObject}]
AdminRespondToAuthChallengeParams ==
    [challengeName : {<<"N">>}, challengeResponses : {[USERNAME |-> <<"u">>]},
     session : {Undefined, <<"e">>}, clientMetadata : {NoObject}]

initiateAuth ==
    /\ pc = "idle"
    /\ \E p \in AdminInitiateAuthParams :
            send("initiateAuth", p, "AdminInitiateAuthCommand",
                 [UserPoolId |-> config.userPoolId,
                  ClientId |-> config.clientId,
                  AuthFlow |-> "ADMIN_USER_PASSWORD_AUTH",
                  AuthParameters |-> [USERNAME |-> p.username, PASSWORD |-> p.password],
                  ClientMetadata |-> p.clientMetadata])

initiateAuthResumes ==
    /\ settle("initiateAuth", initiateAuthResult(response))
    /\ UNCHANGED now

respondToAuthChallenge ==
    /\ pc = "idle"
    /\ \E p \in AdminRespondToAuthChallengeParams :
            send("respondToAuthChallenge", p, "AdminRespondToAuthChallengeCommand",
                 [UserPoolId |-> config.userPoolId,
                  ClientId |-> config.clientId,
                  ChallengeName |-> p.challengeName,
                  ChallengeResponses |-> p.challengeResponses,
                  Session |-> p.session,
                  ClientMetadata |-> p.clientMetadata])

respondToAuthChallengeResumes ==
    /\ settle("respondToAuthChallenge", respondToAuthChallengeResult(response))
    /\ UNCHANGED now

\* the object listUsers and listUsersInGroup build of an entry of Users
\* for mapAdminGetUserResponse
listedUser(user) ==
    LET picked ==
            [Username |-> user.Username,
             UserAttributes |-> user.Attributes,
             UserCreateDate |-> user.UserCreateDate,
             UserLastModifiedDate |-> user.UserLastModifiedDate,
             UserStatus |-> user.UserStatus,
             MFAOptions |->
                 IF user.MFAOptions = UndefinedList THEN UndefinedList
                 ELSE [i \in DOMAIN user.MFAOptions |->
                          [DeliveryMedium |-> user.MFAOptions[i].DeliveryMedium,
                           AttributeName |-> user.MFAOptions[i].AttributeName]],
             PreferredMfaSetting |-> Undefined,
             UserMFASettingList |-> Undefined]
    IN  IF "Enabled" \in DOMAIN user THEN picked @@ [Enabled |-> user.Enabled]
        ELSE picked

\* (response.Users || []).map(user => mapAdminGetUserResponse({...})), the
\* mapper reading the clock at times[i] for the i-th entry
mapUsers(Users, times) ==
    LET list == IF Users = UndefinedList THEN <<>> ELSE Users
    IN  [i \in DOMAIN list |->
            mapAdminGetUserResponse(listedUser(list[i]), times[i], times[i])]

\* the mapped entries that did not throw, in their order
RECURSIVE returnedOnly(_)
returnedOnly(mapped) ==
    IF mapped = <<>> THEN <<>>
    ELSE (IF Head(mapped).kind = "thrown" THEN <<>> ELSE <<Head(mapped).value>>)
         \o returnedOnly(Tail(mapped))

\* listUsers, but leaving out the entries the mapper refuses
listUsersResult_skipsInvalid(resp, times) ==
    awaitSend(resp,
        Resolved([users |-> returnedOnly(mapUsers(resp.body.Users, times)),
                  paginationToken |-> resp.body.PaginationToken]))

\* CognitoAdminClient.listUsers after its await
listUsersResult(resp, times) ==
    awaitSend(resp,
        LET users == mapUsers(resp.body.Users, times)
        IN  IF \E i \in DOMAIN users : users[i].kind = "thrown"
            THEN Rejected(Error(InvalidAdminGetUser))
            ELSE Resolved([users |-> [i \in DOMAIN users |-> users[i].value],
                           paginationToken |-> resp.body.PaginationToken]))

\* CognitoAdminClient.listUsersInGroup after its await
listUsersInGroupResult(resp, times) ==
    awaitSend(resp,
        LET users == mapUsers(resp.body.Users, times)
        IN  IF \E i \in DOMAIN users : users[i].kind = "thrown"
            THEN Rejected(Error(InvalidAdminGetUser))
            ELSE Resolved([users |-> [i \in DOMAIN users |-> users[i].value],
                           nextToken |-> resp.body.NextToken]))

AdminListUsersParams ==
    [limit : {NoNumber, 10}, paginationToken : {Undefined}, filter : {Undefined}]
ListUsersInGroupParams ==
    [groupName : GroupNames, limit : {NoNumber}, nextToken : {Undefined, <<"p">>}]

\* the clock as the entries are mapped one after the other
MapTimes ==
    {times \in [1..2 -> {t + d : t \in Clock, d \in 0..1}] :
        times[1] <= times[2] /\ times[2] <= times[1] + 1}

listUsers ==
    /\ pc = "idle"
    /\ \E p \in AdminListUsersParams :
            send("listUsers", p, "ListUsersCommand",
                 [UserPoolId |-> config.userPoolId, Limit |-> p.limit,
                  PaginationToken |-> p.paginationToken, Filter |-> p.filter])

listUsersResumes ==
    \E times \in MapTimes :
        /\ now' = times[1]
        /\ settle("listUsers", listUsersResult(response, times))

listUsersInGroup ==
    /\ pc = "idle"
    /\ \E p \in ListUsersInGroupParams :
            send("listUsersInGroup", p, "ListUsersInGroupCommand",
                 [UserPoolId |-> config.userPoolId, GroupName |-> p.groupName,
                  Limit |-> p.limit, NextToken |-> p.nextToken])

listUsersInGroupResumes ==
    \E times \in MapTimes :
        /\ now' = times[1]
        /\ settle("listUsersInGroup", listUsersInGroupResult(response, times))

Init == MapperIdle /\ FacadeIdle /\ calls = <<>> /\ throwOriginalErrors \in BOOLEAN

Next ==
    \/ refreshToken
    \/ refreshTokenResumes
    \/ getDevice
    \/ getDeviceResumes
    \/ adminGetDevice
    \/ adminGetDeviceResumes
    \/ createGroup
    \/ createGroupResumes
    \/ getGroup
    \/ getGroupResumes
    \/ updateGroup
    \/ updateGroupResumes
    \/ signIn
    \/ signInResumes
    \/ respondToNewPasswordChallenge
    \/ respondToNewPasswordChallengeResumes
    \/ getMe
    \/ getMeResumes
    \/ updateMe
    \/ updateMeResumes
    \/ deleteMe
    \/ deleteMeResumes
    \/ adminCreateUser
    \/ adminCreateUserSetsPassword
    \/ adminCreateUserResumes
    \/ initiateAuth
    \/ initiateAuthResumes
    \/ respondToAuthChallenge
    \/ respondToAuthChallengeResumes
    \/ listUsers
    \/ listUsersResumes
    \/ listUsersInGroup
    \/ listUsersInGroupResumes
    \/ ProviderAnswers
    \/ ProviderFails

Spec == Init /\ [][Next]_vars

\* The continuations the event loop runs once an awaited request has
\* completed: a settled promise's reactions are queued as microtasks and the
\* queue is drained, so a continuation that stays enabled is eventually run.
\* Nothing obliges the provider to complete a request.
Resumes ==
    \/ refreshTokenResumes
    \/ getDeviceResumes
    \/ adminGetDeviceResumes
    \/ createGroupResumes
    \/ getGroupResumes
    \/ updateGroupResumes
    \/ signInResumes
    \/ respondToNewPasswordChallengeResumes
    \/ getMeResumes
    \/ updateMeResumes
    \/ deleteMeResumes
    \/ adminCreateUserSetsPassword
    \/ adminCreateUserResumes
    \/ initiateAuthResumes
    \/ respondToAuthChallengeResumes
    \/ listUsersResumes
    \/ listUsersInGroupResumes

\* the facade constructed without an error policy, which no operation of
\* src/lib reads
InitLive == MapperIdle /\ FacadeIdle /\ calls = <<>> /\ throwOriginalErrors = FALSE

SpecLive == InitLive /\ [][Next]_vars /\ WF_vars(Resumes)

---------------------------------------------------------------------------
(* The CognitoAdminClient that takes throwOriginalErrors (the second class *)
(* of part_000): every operation is one try block whose catch either       *)
(* rethrows the failure or throws a new Error with the operation's prefix  *)
(* and the normalised message.                                             *)

\* catch (error) { if (this.throwOriginalErrors) throw error; ... } but
\* ending the operation normally under the wrap policy
catchError_swallows(throwOriginal, prefix, attempt) ==
    IF attempt.kind # "rejected" \/ throwOriginal THEN attempt
    ELSE Resolved(FALSE)

\* try { attempt } catch (error) { if (this.throwOriginalErrors) throw
\* error; throw new Error(`${prefix} error: ${formatError(error).message}`) }
catchError(throwOriginal, prefix, attempt) ==
    IF attempt.kind # "rejected" \/ throwOriginal THEN attempt
    ELSE LET formattedError == formatError(attempt.error)
         IN  IF formattedError.kind = "thrown"
             THEN Rejected([type |-> "Error", name |-> formattedError.name,
                            message |-> formattedError.message])
             ELSE Rejected(Error(prefix \o " error: " \o formattedError.value.message))

\* the response bodies the provider can give to a command of this facade
AdminBodies(command) ==
    CASE command = "AdminCreateUserCommand" -> [User : CreatedUsers \cup {NoObject}]
      [] command = "AdminGetUserCommand" -> GotUsers
      [] command \in {"AdminSetUserPasswordCommand", "AdminDeleteUserCommand"} ->
            {EmptyBody}

AdminAnswers ==
    /\ pc = "awaiting"
    /\ \E body \in AdminBodies(sent[Len(sent)].command) :
          response' = [kind |-> "answer", body |-> body]
    /\ replies' = Append(replies, response')
    /\ pc' = "settling"
    /\ UNCHANGED <<op, params, sent, outcome, now, config, throwOriginalErrors,
                 createUserResult>>
    /\ UNCHANGED mapperVars
    /\ UNCHANGED concurrentVars

createUser ==
    /\ pc = "idle"
    /\ \E p \in CreateUserParams :
            send("createUser", p, "AdminCreateUserCommand",
                 [UserPoolId |-> config.userPoolId,
                  Username |-> p.username,
                  TemporaryPassword |-> p.temporaryPassword,
                  UserAttributes |-> createUserAttributes(p),
                  MessageAction |-> p.messageAction])

\* after the first await: the response is mapped and, a password being
\* given, AdminSetUserPasswordCommand is sent
createUserSetsPassword ==
    /\ pc = "settling"
    /\ op = "createUser"
    /\ Len(sent) = 1
    /\ response.kind = "answer"
    /\ Truthy(params.password)
    /\ \E t \in Clock, t1, t2 \in 0..1 :
          LET mapped == mapAdminCreateUserResponse(response.body, t + t1, t + t2)
          IN  /\ t1 <= t2
              /\ mapped.kind = "returned"
              /\ createUserResult' = mapped.value
              /\ now' = t
    /\ sent' = Append(sent, [command |-> "AdminSetUserPasswordCommand",
                             input |-> [UserPoolId |-> config.userPoolId,
                                        Username |-> params.username,
                                        Password |-> params.password,
                                        Permanent |-> TRUE]])
    /\ pc' = "awaiting"
    /\ UNCHANGED <<op, params, response, outcome, config, replies, throwOriginalErrors>>
    /\ UNCHANGED mapperVars
    /\ UNCHANGED concurrentVars

\* createUser settles: after the first await when the request failed, the
\* response is invalid or no password was given, else after the second
createUserResumes ==
    /\ pc = "settling"
    /\ op = "createUser"
    /\ \/ /\ Len(sent) = 1
          /\ \E t \in Clock, t1, t2 \in 0..1 :
                LET mapped == mapAdminCreateUserResponse(response.body, t + t1, t + t2)
                    attempt ==
                        awaitSend(response,
                            IF mapped.kind = "thrown"
                            THEN Rejected(Error(mapped.message))
                            ELSE Resolved(mapped.value))
                    settlesNow ==
                        IF response.kind = "failure" THEN TRUE
                        ELSE IF mapped.kind = "thrown" THEN TRUE
                        ELSE ~Truthy(params.password)
                IN  /\ t1 <= t2
                    /\ settlesNow
                    /\ now' = t
                    /\ settle("createUser",
                              catchError(throwOriginalErrors, "CreateUser", attempt))
       \/ /\ Len(sent) = 2
          /\ UNCHANGED now
          /\ settle("createUser",
                    catchError(throwOriginalErrors, "CreateUser",
                               awaitSend(response, Resolved(createUserResult))))

getUser ==
    /\ pc = "idle"
    /\ \E username \in {<<"u">>} :
            send("getUser", [username |-> username], "AdminGetUserCommand",
                 [UserPoolId |-> config.userPoolId, Username |-> username])

getUserResumes ==
    /\ pc = "settling"
    /\ op = "getUser"
    /\ \E t \in Clock, t1, t2 \in 0..1 :
          LET mapped == mapAdminGetUserResponse(response.body, t + t1, t + t2)
              attempt ==
                  awaitSend(response,
                      IF mapped.kind = "thrown"
                      THEN Rejected(Error(mapped.message))
                      ELSE Resolved(mapped.value))
          IN  /\ t1 <= t2
              /\ now' = t
              /\ settle("getUser", catchError(throwOriginalErrors, "GetUser", attempt))

deleteUser ==
    /\ pc = "idle"
    /\ \E username \in {<<"u">>} :
            send("deleteUser", [username |-> username], "AdminDeleteUserCommand",
                 [UserPoolId |-> config.userPoolId, Username |-> username])

deleteUserResumes ==
    /\ settle("deleteUser",
              catchError(throwOriginalErrors, "DeleteUser",
                         awaitSend(response, Resolved(TRUE))))
    /\ UNCHANGED now

\* the caller, its invocation settled, is free to make the next one
nextCall ==
    /\ pc \in {"resolved", "rejected"}
    /\ op' = "none"
    /\ params' = [none |-> TRUE]
    /\ pc' = "idle"
    /\ sent' = <<>>
    /\ response' = [kind |-> "none"]
    /\ outcome' = [kind |-> "none"]
    /\ now' = 0
    /\ replies' = <<>>
    /\ createUserResult' = NoObject
    /\ UNCHANGED <<config, throwOriginalErrors>>
    /\ UNCHANGED mapperVars
    /\ UNCHANGED concurrentVars

InitPolicy == MapperIdle /\ FacadeIdle /\ calls = <<>> /\ throwOriginalErrors \in BOOLEAN

NextPolicy ==
    \/ createUser
    \/ createUserSetsPassword
    \/ createUserResumes
    \/ getUser
    \/ getUserResumes
    \/ deleteUser
    \/ deleteUserResumes
    \/ AdminAnswers
    \/ ProviderFails
    \/ nextCall

SpecPolicy == InitPolicy /\ [][NextPolicy]_vars

---------------------------------------------------------------------------
(* Several invocations on one facade instance. An async method keeps its   *)
(* parameters, the response it awaits and its result in local variables;   *)
(* the instance holds this.client and this.config, which only the          *)
(* constructor assigns. The invocations are calls[1], ..., calls[MaxCalls], *)
(* their steps interleave in every order.                                  *)

MaxCalls == 2         \* invocations in flight on one instance

IdleCall == [pc |-> "idle"]

ConcurrentCredentials == [username : {<<"u">>}, password : {<<"s">>}]
ConcurrentCreateUserParams ==
    [username : {<<"u">>}, email : {<<"e">>}, password : {Undefined, <<"s">>},
     phone : {Undefined}, temporaryPassword : {Undefined},
     messageAction : {Undefined}, attributes : {<<>>}]

ConcurrentAuthenticationResults ==
    [AccessToken : {<<"t">>, <<"u">>}, IdToken : {<<"t">>}, RefreshToken : {<<"u">>},
     ExpiresIn : {3600}, TokenType : {Undefined}]
ConcurrentCreatedUsers ==
    [Username : {<<"u">>, <<"v">>},
     Attributes : {UndefinedList},
     UserCreateDate : {5},
     UserLastModifiedDate : {5},
     UserStatus : {<<"F">>}]

\* the response bodies the provider can give to a command of a concurrent
\* invocation
ConcurrentBodies(command) ==
    CASE command = "InitiateAuthCommand" ->
            [AuthenticationResult : ConcurrentAuthenticationResults \cup {NoObject}]
      [] command = "AdminCreateUserCommand" ->
            [User : ConcurrentCreatedUsers \cup {NoObject}]
      [] command = "AdminSetUserPasswordCommand" -> {EmptyBody}
ConcurrentErrors == {e \in ProviderErrors : e.type = "Error"}

lastReply(call) == call.replies[Len(call.replies)]

\* invocation i is signIn(p): the request is sent and the invocation
\* suspends at its await
concurrentSignIn ==
    \E i \in 1..MaxCalls, p \in ConcurrentCredentials :
        /\ calls[i].pc = "idle"
        /\ calls' = [calls EXCEPT ![i] =
              [op |-> "signIn", params |-> p, pc |-> "awaiting",
               sent |-> <<[command |-> "InitiateAuthCommand",
                           input |-> [AuthFlow |-> "USER_PASSWORD_AUTH",
                                      ClientId |-> config.clientId,
                                      AuthParameters |->
                                          [USERNAME |-> p.username,
                                           PASSWORD |-> p.password]]]>>,
               replies |-> <<>>, result |-> NoObject, outcome |-> Pending]]
        /\ UNCHANGED <<op, params, pc, sent, response, outcome, now, config, replies,
                       createUserResult, throwOriginalErrors, client>>
        /\ UNCHANGED mapperVars

\* signIn, but settling with the response the first invocation received
concurrentSignInResumes_sharedResponse ==
    \E i \in 1..MaxCalls :
        /\ calls[i].pc = "settling"
        /\ calls[i].op = "signIn"
        /\ LET call == calls[i]
               shared == IF calls[1].pc \in {"settling", "resolved", "rejected"}
                            /\ calls[1].op = "signIn"
                         THEN lastReply(calls[1]) ELSE lastReply(call)
               settled_ == signInResult(shared)
           IN  calls' = [calls EXCEPT ![i] =
                  [call EXCEPT !.outcome = settled_, !.pc = settled_.kind]]
        /\ UNCHANGED <<op, params, pc, sent, response, outcome, now, config, replies,
                       createUserResult, throwOriginalErrors, client>>
        /\ UNCHANGED mapperVars

\* invocation i resumes after its await and settles
concurrentSignInResumes ==
    \E i \in 1..MaxCalls :
        /\ calls[i].pc = "settling"
        /\ calls[i].op = "signIn"
        /\ LET call == calls[i]
               settled_ == signInResult(lastReply(call))
           IN  calls' = [calls EXCEPT ![i] =
                  [call EXCEPT !.outcome = settled_, !.pc = settled_.kind]]
        /\ UNCHANGED <<op, params, pc, sent, response, outcome, now, config, replies,
                       createUserResult, throwOriginalErrors, client>>
        /\ UNCHANGED mapperVars

\* invocation i is createUser(p), up to its first await
concurrentCreateUser ==
    \E i \in 1..MaxCalls, p \in ConcurrentCreateUserParams :
        /\ calls[i].pc = "idle"
        /\ calls' = [calls EXCEPT ![i] =
              [op |-> "createUser", params |-> p, pc |-> "awaiting",
               sent |-> <<[command |-> "AdminCreateUserCommand",
                           input |-> [UserPoolId |-> config.userPoolId,
                                      Username |-> p.username,
                                      TemporaryPassword |-> p.temporaryPassword,
                                      UserAttributes |-> createUserAttributes(p),
                                      MessageAction |-> p.messageAction]]>>,
               replies |-> <<>>, result |-> NoObject, outcome |-> Pending]]
        /\ UNCHANGED <<op, params, pc, sent, response, outcome, now, config, replies,
                       createUserResult, throwOriginalErrors, client>>
        /\ UNCHANGED mapperVars

\* invocation i resumes after an await of createUser: after the first it
\* rejects, resolves or sends the password request, after the second it
\* settles. The users the provider returns here carry both dates, so the
\* mapper does not read the clock.
concurrentCreateUserResumes ==
    \E i \in 1..MaxCalls :
        /\ calls[i].pc = "settling"
        /\ calls[i].op = "createUser"
        /\ LET call == calls[i]
               reply == lastReply(call)
               mapped == mapAdminCreateUserResponse(reply.body, now, now)
           IN  calls' = [calls EXCEPT ![i] =
                  IF reply.kind = "failure"
                  THEN [call EXCEPT !.outcome = Rejected(reply.error), !.pc = "rejected"]
                  ELSE IF Len(call.sent) = 2
                  THEN [call EXCEPT !.outcome = Resolved(call.result), !.pc = "resolved"]
                  ELSE IF mapped.kind = "thrown"
                  THEN [call EXCEPT !.outcome = Rejected(Error(mapped.message)),
                                    !.pc = "rejected"]
                  ELSE IF Truthy(call.params.password)
                  THEN [call EXCEPT
                           !.result = mapped.value,
                           !.sent = Append(@,
                               [command |-> "AdminSetUserPasswordCommand",
                                input |-> [UserPoolId |-> config.userPoolId,
                                           Username |-> call.params.username,
                                           Password |-> call.params.password,
                                           Permanent |-> TRUE]]),
                           !.pc = "awaiting"]
                  ELSE [call EXCEPT !.outcome = Resolved(mapped.value), !.pc = "resolved"]]
        /\ UNCHANGED <<op, params, pc, sent, response, outcome, now, config, replies,
                       createUserResult, throwOriginalErrors, client>>
        /\ UNCHANGED mapperVars

\* the provider completes the request invocation i awaits, with an answer
\* or with a failure
ProviderCompletes ==
    \E i \in 1..MaxCalls :
        /\ calls[i].pc = "awaiting"
        /\ LET call == calls[i]
               command == call.sent[Len(call.sent)].command
           IN  \E reply \in {[kind |-> "answer", body |-> b] : b \in ConcurrentBodies(command)}
                            \cup {[kind |-> "failure", error |-> e] : e \in ConcurrentErrors} :
                  calls' = [calls EXCEPT ![i] =
                      [call EXCEPT !.replies = Append(@, reply), !.pc = "settling"]]
        /\ UNCHANGED <<op, params, pc, sent, response, outcome, now, config, replies,
                       createUserResult, throwOriginalErrors, client>>
        /\ UNCHANGED mapperVars

InitConcurrent ==
    /\ MapperIdle
    /\ FacadeIdle
    /\ throwOriginalErrors = FALSE
    /\ calls = [i \in 1..MaxCalls |-> IdleCall]

NextConcurrent ==
    \/ concurrentSignIn
    \/ concurrentSignInResumes
    \/ concurrentCreateUser
    \/ concurrentCreateUserResumes
    \/ ProviderCompletes

SpecConcurrent == InitConcurrent /\ [][NextConcurrent]_vars


---------------------------------------------------------------------------
(* Properties of the attribute mapper and of mapAuthResult.                *)

applied(f) == fn = f /\ ret # Pending
retained(attr) == Truthy(attr.Name) /\ Truthy(attr.Value)
PhoneNumberKey == <<"p","h","o","n","e","N","u","m","b","e","r">>
CustomRoleKey == <<"c","u","s","t","o","m","R","o","l","e">>

\* C1: for every provider name n beginning with 'custom:' and every value v,
\* mapToAttributeList(mapAttributes([{Name: n, Value: v}])) is again
\* [{Name: n, Value: v}].  (Stated for the names 'custom:x' with x not
\* empty and the values mapAttributes retains.)
C1_CustomRoundTrip ==
    (/\ applied("mapAttributes")
     /\ arg # UndefinedList
     /\ Len(arg) = 1
     /\ retained(arg[1])
     /\ startsWith(arg[1].Name, CustomColon)
     /\ Len(arg[1].Name) > 7)
    => mapToAttributeList(ret.value) = arg

\* The reference transform of a provider name, position by position: a
\* separator followed by a lowercase letter is deleted, a lowercase letter
\* following a separator is uppercased, every other character is kept.
RefCollapse(s) ==
    LET marked == [i \in DOMAIN s |->
                     [char |-> IF i > 1 /\ s[i - 1] \in {"-", "_"} /\ IsLower(s[i])
                               THEN toUpperCase(<<s[i]>>)[1] ELSE s[i],
                      drop |-> i < Len(s) /\ s[i] \in {"-", "_"} /\ IsLower(s[i + 1])]]
        kept == SelectSeq(marked, LAMBDA e : ~e.drop)
    IN  [i \in DOMAIN kept |-> kept[i].char]
RefKey(n) ==
    IF Len(n) >= 7 /\ SubSeq(n, 1, 7) = CustomColon
    THEN RefCollapse(Custom
                     \o (IF Len(n) >= 8 THEN toUpperCase(<<n[8]>>) ELSE <<>>)
                     \o SubSeq(n, 9, Len(n)))
    ELSE RefCollapse(n)
hasSeparator(n) == \E i \in DOMAIN n : n[i] \in {"-", "_"}

\* C2: the application key of every retained provider attribute is the
\* reference transform of its name; a plain name without separators is its
\* own key, 'phone_number' gives 'phoneNumber', 'custom:role' 'customRole'.
C2_KeyIsReferenceTransform ==
    (applied("mapAttributes") /\ arg # UndefinedList) =>
        /\ \A i \in DOMAIN arg :
              retained(arg[i]) => hasKey(ret.value, RefKey(arg[i].Name))
        /\ \A j \in DOMAIN ret.value :
              \E i \in DOMAIN arg :
                  retained(arg[i]) /\ ret.value[j].key = RefKey(arg[i].Name)
        /\ \A i \in DOMAIN arg :
              (/\ retained(arg[i])
               /\ ~startsWith(arg[i].Name, CustomColon)
               /\ ~hasSeparator(arg[i].Name)) => hasKey(ret.value, arg[i].Name)
        /\ \A i \in DOMAIN arg :
              (retained(arg[i]) /\ arg[i].Name = PhoneNumber)
                  => hasKey(ret.value, PhoneNumberKey)
        /\ \A i \in DOMAIN arg :
              (retained(arg[i]) /\ arg[i].Name = CustomRole)
                  => hasKey(ret.value, CustomRoleKey)

\* a namespaced name whose suffix also holds a collapsing separator
C2_Witness ==
    /\ applied("mapAttributes")
    /\ arg = <<[Name |-> CustomColon \o <<"_", "r">>, Value |-> <<"v">>]>>
    /\ ret.value = <<[key |-> Custom \o <<"R">>, value |-> <<"v">>]>>

\* C3: every key of the mapping comes from an entry with a non-empty Name
\* and a non-empty Value and carries that entry's Value; when no entry has
\* both, the mapping is empty.
C3_OnlyCompleteEntries ==
    (applied("mapAttributes") /\ arg # UndefinedList) =>
        /\ \A j \in DOMAIN ret.value :
              \E i \in DOMAIN arg :
                  /\ arg[i].Name \notin {Undefined, <<>>}
                  /\ arg[i].Value \notin {Undefined, <<>>}
                  /\ attributeKey(arg[i].Name) = ret.value[j].key
                  /\ arg[i].Value = ret.value[j].value
        /\ Len(ret.value) <=
              Cardinality({i \in DOMAIN arg : arg[i].Name \notin {Undefined, <<>>}
                                              /\ arg[i].Value \notin {Undefined, <<>>}})

\* a complete entry next to one without a Value and one without a Name
C3_Witness ==
    /\ applied("mapAttributes")
    /\ arg # UndefinedList
    /\ Len(arg) = 2
    /\ arg[1].Name = <<"r">> /\ arg[1].Value = Undefined
    /\ arg[2].Name = <<"R">> /\ arg[2].Value = <<"v">>
    /\ ret.value = <<[key |-> <<"R">>, value |-> <<"v">>]>>

\* The reference name of an application key.
RefName(k) ==
    IF Len(k) > 6 /\ SubSeq(k, 1, 6) = Custom
    THEN CustomColon \o toLowerCase(<<k[7]>>) \o SubSeq(k, 8, Len(k))
    ELSE k

\* C4: mapToAttributeList returns one {Name, Value} pair per entry, in the
\* mapping's order, Value unchanged, Name = 'custom:' + lowercased first
\* remaining character + rest for a key longer than and starting with
\* 'custom', and the key itself otherwise ('custom' stays 'custom').
C4_OnePairPerEntry ==
    applied("mapToAttributeList") =>
        /\ Len(ret.value) = Len(arg)
        /\ \A i \in DOMAIN arg :
              /\ ret.value[i].Value = arg[i].value
              /\ ret.value[i].Name = RefName(arg[i].key)
              /\ arg[i].key = Custom => ret.value[i].Name = Custom
              /\ ~startsWith(arg[i].key, Custom) => ret.value[i].Name = arg[i].key

\* a custom key next to a plain one with a separator
C4_Witness ==
    /\ applied("mapToAttributeList")
    /\ arg = <<[key |-> Custom \o <<"R">>, value |-> <<"v">>],
               [key |-> <<"_">>, value |-> <<"w">>]>>
    /\ ret.value = <<[Name |-> CustomColon \o <<"r">>, Value |-> <<"v">>],
                     [Name |-> <<"_">>, Value |-> <<"w">>]>>

\* C5: when several retained entries give the same key, mapAttributes
\* returns normally and the key holds the Value of the last of them.
C5_LastWriteWins ==
    (applied("mapAttributes") /\ arg # UndefinedList) =>
        /\ ret.kind = "returned"
        /\ \A i, j \in DOMAIN arg :
              (/\ i < j
               /\ retained(arg[i]) /\ retained(arg[j])
               /\ attributeKey(arg[i].Name) = attributeKey(arg[j].Name)
               /\ \A k \in DOMAIN arg :
                     (k > j /\ retained(arg[k]))
                         => attributeKey(arg[k].Name) # attributeKey(arg[j].Name))
              => lookup(ret.value, attributeKey(arg[j].Name)) = arg[j].Value

\* 'custom:r' and then 'customR', with different values
C5_Witness ==
    /\ applied("mapAttributes")
    /\ arg = <<[Name |-> CustomColon \o <<"r">>, Value |-> <<"v">>],
               [Name |-> Custom \o <<"R">>, Value |-> <<"w">>]>>
    /\ ret.value = <<[key |-> Custom \o <<"R">>, value |-> <<"w">>]>>

\* C6: when any of AccessToken, IdToken, RefreshToken, ExpiresIn is absent,
\* mapAuthResult throws the invalid-response error and returns nothing.
C6_MissingFieldFails ==
    (/\ applied("mapAuthResult")
     /\ \/ arg.AccessToken = Undefined
        \/ arg.IdToken = Undefined
        \/ arg.RefreshToken = Undefined
        \/ arg.ExpiresIn = NoNumber)
    => /\ ret.kind = "thrown"
       /\ ret.message = InvalidAuthResult
       /\ "value" \notin DOMAIN ret

\* only the expiry is absent
C6_Witness ==
    /\ applied("mapAuthResult")
    /\ Truthy(arg.AccessToken) /\ Truthy(arg.IdToken) /\ Truthy(arg.RefreshToken)
    /\ arg.ExpiresIn = NoNumber
    /\ ret.kind = "thrown"

\* C7: with the three tokens present and an expiry >= 0, mapAuthResult
\* returns the four values unchanged and tokenType = TokenType, or 'Bearer'
\* when TokenType is absent.  (Stated for non-empty tokens.)
C7_CompleteResultMaps ==
    (/\ applied("mapAuthResult")
     /\ Truthy(arg.AccessToken) /\ Truthy(arg.IdToken) /\ Truthy(arg.RefreshToken)
     /\ arg.ExpiresIn >= 0)
    => /\ ret.kind = "returned"
       /\ ret.value.accessToken = arg.AccessToken
       /\ ret.value.idToken = arg.IdToken
       /\ ret.value.refreshToken = arg.RefreshToken
       /\ ret.value.expiresIn = arg.ExpiresIn
       /\ ret.value.tokenType =
             (IF arg.TokenType = Undefined THEN Bearer ELSE arg.TokenType)

---------------------------------------------------------------------------
(* Properties of the facade operations.                                    *)

settled(name) == op = name /\ pc \in {"resolved", "rejected"}
answered == response.kind = "answer"

\* C8: when refreshToken resolves, the refreshToken of its result is the
\* caller's, whatever RefreshToken the provider sent or omitted, and
\* accessToken, idToken and expiresIn are the provider's.
C8_RefreshTokenPreserved ==
    (op = "refreshToken" /\ pc = "resolved") =>
        /\ outcome.value.refreshToken = params.refreshToken
        /\ outcome.value.accessToken = response.body.AuthenticationResult.AccessToken
        /\ outcome.value.idToken = response.body.AuthenticationResult.IdToken
        /\ outcome.value.expiresIn = response.body.AuthenticationResult.ExpiresIn

\* resolved although the provider sent another refresh token
C8_Witness ==
    /\ op = "refreshToken"
    /\ pc = "resolved"
    /\ params.refreshToken = <<"o">>
    /\ response.body.AuthenticationResult.RefreshToken = <<"u">>

\* C9: getDevice and adminGetDevice reject with the validation failure
\* exactly when the response has no Device; with a Device they resolve
\* whatever sub-fields are absent: deviceKey '' for an absent DeviceKey, an
\* empty mapping for absent attributes, the current time for an absent
\* create or last-modified date, and an absent last-authenticated date
\* stays absent.
C9_DeviceContainerOnly ==
    \A name \in {"getDevice", "adminGetDevice"} :
        settled(name) =>
            /\ (outcome = Rejected(Error(NoDeviceReturned)))
                   <=> (answered /\ response.body.Device = NoObject)
            /\ (answered /\ response.body.Device # NoObject) =>
                  LET device == response.body.Device
                      value == outcome.value
                  IN  /\ pc = "resolved"
                      /\ value.deviceKey =
                            (IF device.DeviceKey = Undefined THEN <<>>
                             ELSE device.DeviceKey)
                      /\ device.DeviceAttributes = UndefinedList
                            => value.deviceAttributes = <<>>
                      /\ value.deviceCreateDate \in
                            (IF device.DeviceCreateDate = NoDate
                             THEN now..(now + 1) ELSE {device.DeviceCreateDate})
                      /\ value.deviceLastModifiedDate \in
                            (IF device.DeviceLastModifiedDate = NoDate
                             THEN now..(now + 1) ELSE {device.DeviceLastModifiedDate})
                      /\ value.deviceLastAuthenticatedDate =
                            device.DeviceLastAuthenticatedDate

\* a Device container with every sub-field absent
C9_Witness ==
    /\ op = "getDevice"
    /\ pc = "resolved"
    /\ response.body.Device =
          [DeviceKey |-> Undefined, DeviceAttributes |-> UndefinedList,
           DeviceCreateDate |-> NoDate, DeviceLastModifiedDate |-> NoDate,
           DeviceLastAuthenticatedDate |-> NoDate]
    /\ outcome.value.deviceKey = <<>>
    /\ outcome.value.deviceCreateDate = now

NoGroupReturned(name) ==
    CASE name = "createGroup" -> NoGroupOnCreate
      [] name = "getGroup" -> NoGroupOnGet
      [] name = "updateGroup" -> NoGroupOnUpdate

\* C10: createGroup, getGroup and updateGroup reject with the validation
\* failure exactly when the response has no Group; with a Group they
\* resolve with groupName '' for an absent GroupName and description,
\* precedence, roleArn and both timestamps as the provider sent them.
C10_GroupContainerOnly ==
    \A name \in {"createGroup", "getGroup", "updateGroup"} :
        settled(name) =>
            /\ (outcome = Rejected(Error(NoGroupReturned(name))))
                   <=> (answered /\ response.body.Group = NoObject)
            /\ (answered /\ response.body.Group # NoObject) =>
                  LET group == response.body.Group
                      value == outcome.value
                  IN  /\ pc = "resolved"
                      /\ value.groupName =
                            (IF group.GroupName = Undefined THEN <<>>
                             ELSE group.GroupName)
                      /\ value.description = group.Description
                      /\ value.precedence = group.Precedence
                      /\ value.roleArn = group.RoleArn
                      /\ value.lastModifiedDate = group.LastModifiedDate
                      /\ value.creationDate = group.CreationDate

\* a Group container with every optional field absent
C10_Witness ==
    /\ op = "updateGroup"
    /\ pc = "resolved"
    /\ response.body.Group =
          [GroupName |-> Undefined, Description |-> Undefined,
           UserPoolId |-> Undefined, Precedence |-> NoNumber,
           RoleArn |-> Undefined, LastModifiedDate |-> NoDate,
           CreationDate |-> NoDate]
    /\ outcome.value.groupName = <<>>
    /\ outcome.value.description = Undefined

---------------------------------------------------------------------------
(* Properties of mapAdminGetUserResponse, of the error normalisation and   *)
(* of the facades' error policy.                                           *)

C11_UserRecord ==
    /\ ret.kind = "thrown" => ret.message = InvalidAdminGetUser
    /\ ret.kind = "returned" =>
          LET value == ret.value
          IN  /\ value.username = arg.Username
              /\ "Enabled" \notin DOMAIN arg => value.enabled = FALSE
              /\ "Enabled" \in DOMAIN arg => value.enabled = arg.Enabled
              /\ arg.UserStatus = Undefined => value.userStatus = <<>>
              /\ arg.UserStatus # Undefined => value.userStatus = arg.UserStatus
              /\ value.userAttributes = mapAttributes(arg.UserAttributes)
              /\ arg.MFAOptions = UndefinedList => value.mfaOptions = UndefinedList
              /\ arg.MFAOptions # UndefinedList =>
                    /\ Len(value.mfaOptions) = Len(arg.MFAOptions)
                    /\ \A i \in DOMAIN arg.MFAOptions :
                          /\ value.mfaOptions[i].deliveryMedium =
                                (IF arg.MFAOptions[i].DeliveryMedium = Undefined
                                 THEN <<>> ELSE arg.MFAOptions[i].DeliveryMedium)
                          /\ value.mfaOptions[i].attributeName =
                                (IF arg.MFAOptions[i].AttributeName = Undefined
                                 THEN <<>> ELSE arg.MFAOptions[i].AttributeName)

\* C11 as claimed: mapAdminGetUserResponse throws the invalid-response
\* error exactly when Username is absent, and otherwise returns the user
\* record with the stated defaults.
C11_FailsExactlyWhenAbsent ==
    applied("mapAdminGetUserResponse") =>
        /\ ret.kind = "thrown" <=> arg.Username = Undefined
        /\ C11_UserRecord

\* C11, amended: mapAdminGetUserResponse throws the invalid-response error
\* exactly when Username is absent or empty; otherwise enabled is false for
\* an absent Enabled, userStatus '' for an absent UserStatus, userAttributes
\* is mapAttributes of the list, and mfaOptions is absent for absent
\* MFAOptions and else the list of {deliveryMedium, attributeName}, element
\* by element, with '' for a missing sub-field.
C11_FailsExactlyWhenFalsy ==
    applied("mapAdminGetUserResponse") =>
        /\ ret.kind = "thrown" <=> arg.Username \in {Undefined, <<>>}
        /\ C11_UserRecord

\* a user without Enabled and UserStatus, with two MFA options of which the
\* second lacks both sub-fields
C11_Witness ==
    /\ applied("mapAdminGetUserResponse")
    /\ ret.kind = "returned"
    /\ "Enabled" \notin DOMAIN arg
    /\ arg.UserStatus = Undefined
    /\ arg.MFAOptions # UndefinedList
    /\ Len(arg.MFAOptions) = 2
    /\ arg.MFAOptions[2] = [DeliveryMedium |-> Undefined, AttributeName |-> Undefined]
    /\ ret.value.mfaOptions[2] = [deliveryMedium |-> <<>>, attributeName |-> <<>>]
    /\ ret.value.mfaOptions[1].deliveryMedium = <<"S","M","S">>

normalised == fn \in ErrorNormalisers /\ ret # Pending

\* C12: error normalisation is total: formatError and getErrorInfo on both
\* facades return, for every input value, a record with exactly the fields
\* code, name and message, and never throw.
C12_NormalisationIsTotal ==
    normalised =>
        /\ ret.kind = "returned"
        /\ DOMAIN ret.value = {"code", "name", "message"}

\* C13: for an Error instance with name N and message M the normalised
\* record has name N, message M, and the error's code when it has a
\* non-empty one, 'UnknownError' otherwise.
C13_ErrorInstanceFields ==
    normalised /\ arg.type = "Error" =>
        /\ ret.kind = "returned"
        /\ ret.value.name = arg.name
        /\ ret.value.message = arg.message
        /\ ret.value.code = fieldOr(arg, "code", UnknownError)

\* C14: for a non-null object that is not an Error and can be serialised,
\* code, name and message are the object's own fields when present, each
\* defaulted on its own: code and name to 'UnknownError', message to the
\* serialised object.
C14_ObjectFields ==
    normalised /\ arg.type = "object" /\ ~arg.circular =>
        /\ ret.kind = "returned"
        /\ ret.value.code = fieldOr(arg, "code", UnknownError)
        /\ ret.value.name = fieldOr(arg, "name", UnknownError)
        /\ ret.value.message = fieldOr(arg, "message", stringify(arg))

\* C15: for a primitive, null or undefined the normalised record has code
\* and name 'UnknownError' and the string conversion of the value as message.
C15_PrimitiveFields ==
    normalised /\ arg \in Primitives =>
        /\ ret.kind = "returned"
        /\ ret.value.code = UnknownError
        /\ ret.value.name = UnknownError
        /\ ret.value.message = String(arg)

hasBearerPrefix(h) ==
    /\ Len(h) >= 7
    /\ h[1] = "B" /\ h[2] = "e" /\ h[3] = "a" /\ h[4] = "r" /\ h[5] = "e" /\ h[6] = "r"
    /\ h[7] = " "

\* C16: extractAccessToken(h) is '' when h is empty or absent, h without
\* its first 7 characters when h starts with exactly 'Bearer ', and h
\* unchanged otherwise.
C16_ExtractAccessToken ==
    applied("extractAccessToken") =>
        /\ ret.kind = "returned"
        /\ arg \in {Undefined, <<>>} => ret.value = <<>>
        /\ arg \notin {Undefined, <<>>} /\ hasBearerPrefix(arg) =>
              /\ Len(ret.value) = Len(arg) - 7
              /\ \A i \in DOMAIN ret.value : ret.value[i] = arg[i + 7]
        /\ arg \notin {Undefined, <<>>} /\ ~hasBearerPrefix(arg) => ret.value = arg

\* 'Bearer Bearer t' loses one prefix only
C16_Witness ==
    /\ applied("extractAccessToken")
    /\ arg = (BearerSpace \o BearerSpace) \o <<"t">>
    /\ ret.value = BearerSpace \o <<"t">>

MeOperations == {"getMe", "updateMe", "deleteMe"}

\* C17: getMe, updateMe and deleteMe called with an authorization from
\* which no token can be extracted (absent, '' or exactly 'Bearer ') reject
\* with 'No access token provided in authorization header' and send no
\* request; every request they do send carries a non-empty AccessToken
\* equal to extractAccessToken(authorization).
C17_NoTokenNoRequest ==
    op \in MeOperations =>
        /\ params.authorization \in {Undefined, <<>>, BearerSpace} =>
              /\ pc = "rejected"
              /\ outcome.error.message = NoAccessToken
              /\ sent = <<>>
        /\ \A i \in DOMAIN sent :
              /\ sent[i].input.AccessToken \notin {Undefined, <<>>}
              /\ sent[i].input.AccessToken = extractAccessToken(params.authorization)

\* updateMe with the header 'Bearer ' was rejected without a request
C17_Witness ==
    /\ op = "updateMe"
    /\ params.authorization = BearerSpace
    /\ pc = "rejected"
    /\ sent = <<>>

\* the name an operation's failures are prefixed with
OperationName(name) ==
    CASE name = "signIn" -> "SignIn"
      [] name = "refreshToken" -> "RefreshToken"
      [] name = "respondToNewPasswordChallenge" -> "RespondToNewPasswordChallenge"
      [] name = "getMe" -> "GetMe"
      [] name = "updateMe" -> "UpdateMe"
      [] name = "deleteMe" -> "DeleteMe"
      [] name = "createUser" -> "CreateUser"
      [] name = "getUser" -> "GetUser"
      [] name = "deleteUser" -> "DeleteUser"
      [] name = "getDevice" -> "GetDevice"
      [] name = "adminGetDevice" -> "AdminGetDevice"
      [] name = "createGroup" -> "CreateGroup"
      [] name = "getGroup" -> "GetGroup"
      [] name = "updateGroup" -> "UpdateGroup"
      [] name = "initiateAuth" -> "InitiateAuth"
      [] name = "respondToAuthChallenge" -> "RespondToAuthChallenge"
      [] name = "listUsers" -> "ListUsers"
      [] name = "listUsersInGroup" -> "ListUsersInGroup"
wrapped(name, m) == OperationName(name) \o " error: " \o m

providerFailed == response.kind = "failure"

\* C18: when signIn, refreshToken, respondToNewPasswordChallenge, getMe,
\* updateMe or deleteMe of a CognitoUserClient fails because the provider
\* rejected with message m, or because no token could be extracted, the
\* operation rejects with an error whose message is
\* '<OperationName> error: ' followed by m.
C18_UserFailuresAreWrapped ==
    /\ op \in {"signIn", "refreshToken", "respondToNewPasswordChallenge",
               "getMe", "updateMe", "deleteMe"}
       /\ pc \in {"resolved", "rejected"}
       /\ providerFailed
       => /\ pc = "rejected"
          /\ outcome.error.message = wrapped(op, response.error.message)
    /\ op \in MeOperations /\ pc = "rejected" /\ sent = <<>>
       => outcome.error.message = wrapped(op, NoAccessToken)

isSettled == pc \in {"resolved", "rejected"}

\* C19: a facade follows the policy its constructor was given for every
\* failed remote call: with throwOriginalErrors it rejects with the
\* provider's own failure value, without it with a new error whose message
\* is '<OperationName> error: ' followed by the normalised message.
C19_PolicyFollowsFlag ==
    isSettled /\ providerFailed =>
        /\ pc = "rejected"
        /\ throwOriginalErrors => outcome.error = response.error
        /\ ~throwOriginalErrors =>
              /\ outcome.error.name = "Error"
              /\ outcome.error.message =
                    wrapped(op, formatError(response.error).value.message)

\* no operation assigns the flag
C19_FlagIsFixed == [][throwOriginalErrors' = throwOriginalErrors]_vars

someRequestFailed == \E i \in DOMAIN replies : replies[i].kind = "failure"

\* the first response lacks what the operation requires of it
requiredFieldAbsent ==
    /\ replies # <<>>
    /\ replies[1].kind = "answer"
    /\ CASE op = "createUser" -> replies[1].body.User = NoObject
         [] op = "getUser" -> replies[1].body.Username \in {Undefined, <<>>}
         [] op = "getMe" ->
               \/ replies[1].body.Username \in {Undefined, <<>>}
               \/ replies[1].body.UserAttributes = UndefinedList
         [] op \in {"signIn", "respondToNewPasswordChallenge", "refreshToken"} ->
               replies[1].body.AuthenticationResult = NoObject
         [] op \in {"getDevice", "adminGetDevice"} -> replies[1].body.Device = NoObject
         [] op \in {"createGroup", "getGroup", "updateGroup"} ->
               replies[1].body.Group = NoObject
         [] OTHER -> FALSE

\* C20: no failure is swallowed: under either policy an operation of which
\* a request failed, or whose response lacks a required field, never
\* resolves; a resolved operation had every request it sent answered, and
\* createUser given a password resolves only after both its requests.
C20_NoFailureSwallowed ==
    /\ isSettled /\ (someRequestFailed \/ requiredFieldAbsent) =>
          /\ pc = "rejected"
          /\ outcome.kind = "rejected"
    /\ pc = "resolved" =>
          /\ outcome.kind = "resolved"
          /\ Len(replies) = Len(sent)
          /\ \A i \in DOMAIN replies : replies[i].kind = "answer"
          /\ op = "createUser" /\ params.password \notin {Undefined, <<>>} =>
                Len(sent) = 2

\* under the wrap policy createUser, its user created, has its password
\* request fail and rejects with the prefixed message
C20_Witness ==
    /\ op = "createUser"
    /\ ~throwOriginalErrors
    /\ Len(replies) = 2
    /\ replies[1].kind = "answer"
    /\ replies[2].kind = "failure"
    /\ pc = "rejected"
    /\ outcome.error.message = "CreateUser error: Not found"

---------------------------------------------------------------------------
(* Properties of the attribute lists this layer builds.                    *)

uniqueNames(list) == \A i, j \in DOMAIN list : list[i].Name = list[j].Name => i = j

\* C24: mapToAttributeList returns, for every mapping, a list in which no
\* two pairs have the same Name.
C24_NamesAreUnique ==
    applied("mapToAttributeList") => uniqueNames(ret.value)

\* C25: for the provider name 'custom:' with a non-empty value mapAttributes
\* either throws or keeps the name as the key 'custom:'.
C25_BareCustomPassesThrough ==
    (/\ applied("mapAttributes")
     /\ arg # UndefinedList
     /\ Len(arg) = 1
     /\ arg[1].Name = CustomColon
     /\ Truthy(arg[1].Value))
    => \/ ret.kind = "thrown"
       \/ ret.value = <<[key |-> CustomColon, value |-> arg[1].Value]>>

plainKey(k) == k # <<>> /\ \A i \in DOMAIN k : k[i] \notin {"-", "_", ":"}

\* C29: for a key k without '-', '_' and ':' and a non-empty value v,
\* mapAttributes(mapToAttributeList({k: v})) is {k: v} again.
C29_PlainKeyRoundTrip ==
    (/\ applied("mapToAttributeList")
     /\ Len(arg) = 1
     /\ plainKey(arg[1].key)
     /\ Truthy(arg[1].value))
    => mapAttributes(ret.value) = arg

---------------------------------------------------------------------------
(* Properties of the requests an invocation sends.                         *)

invoked == op # "none"
SetPassword == "AdminSetUserPasswordCommand"
unusableInput ==
    op \in MeOperations /\ params.authorization \in {Undefined, <<>>, BearerSpace}

\* C22 as claimed: every invocation, createUser with a password included,
\* sends at most one request to the provider, and exactly one when its
\* input is usable.
C22_AtMostOneRequest ==
    invoked =>
        /\ Len(sent) <= 1
        /\ ~unusableInput => Len(sent) = 1

\* C22, amended: an invocation whose input is unusable sends no request;
\* every other invocation sends one request when invoked and never a
\* second, except createUser given a non-empty password, which sends
\* AdminSetUserPasswordCommand as its second and last request and resolves
\* only after it.
C22_OneRequestButCreateUser ==
    invoked =>
        /\ unusableInput => Len(sent) = 0
        /\ ~unusableInput => Len(sent) >= 1
        /\ Len(sent) <= 2
        /\ Len(sent) = 2 =>
              /\ op = "createUser"
              /\ params.password \notin {Undefined, <<>>}
              /\ sent[2].command = SetPassword
        /\ (op = "createUser" /\ pc = "resolved" /\ params.password \notin {Undefined, <<>>})
              => Len(sent) = 2

\* createUser with the password 's' has resolved after two requests
C22_Witness ==
    /\ op = "createUser"
    /\ params.password = <<"s">>
    /\ pc = "resolved"
    /\ Len(sent) = 2
    /\ sent[1].command = "AdminCreateUserCommand"

\* C23: no operation retries: once a request of an invocation has failed,
\* or its response lacks what the operation requires, the invocation sends
\* nothing more.
C23_NoRetry ==
    [][(someRequestFailed \/ requiredFieldAbsent) => sent' = sent]_vars

\* signIn, its only request failed, has rejected
C23_Witness ==
    /\ op = "signIn"
    /\ someRequestFailed
    /\ pc = "rejected"
    /\ Len(sent) = 1
    /\ outcome.error = response.error

\* C27: createUser sends the set-password request only as its second
\* request, after the create-user request was answered with a User and
\* only for a non-empty password; when the set-password request fails
\* createUser rejects with that failure and sends nothing to undo the
\* creation.
C27_PasswordAfterValidCreation ==
    op = "createUser" =>
        /\ \A i \in DOMAIN sent :
              sent[i].command = SetPassword =>
                  /\ i = 2
                  /\ sent[1].command = "AdminCreateUserCommand"
                  /\ replies[1].kind = "answer"
                  /\ replies[1].body.User # NoObject
                  /\ params.password \notin {Undefined, <<>>}
        /\ Len(sent) <= 2
        /\ (isSettled /\ Len(replies) = 2 /\ replies[2].kind = "failure") =>
              /\ pc = "rejected"
              /\ outcome.error = replies[2].error
              /\ Len(sent) = 2

\* the user created, the set-password request has failed and createUser
\* has rejected
C27_Witness ==
    /\ op = "createUser"
    /\ Len(replies) = 2
    /\ replies[1].kind = "answer"
    /\ replies[1].body.User # NoObject
    /\ replies[2].kind = "failure"
    /\ pc = "rejected"
    /\ outcome.error = replies[2].error

\* C21: an invocation whose request has completed goes on (it settles, or
\* createUser sends its second request), so that an invocation all of whose
\* requests have completed eventually settles; it is resolved or rejected,
\* never both, and once settled neither its state nor its outcome changes.
C21_SettlesExactlyOnce ==
    /\ (pc = "settling") ~> (isSettled \/ pc = "awaiting")
    /\ [](pc = "resolved" <=> outcome.kind = "resolved")
    /\ [](pc = "rejected" <=> outcome.kind = "rejected")
    /\ [][isSettled => (pc' = pc /\ outcome' = outcome)]_vars

\* createUser has resolved after both of its requests were answered
C21_Witness ==
    /\ op = "createUser"
    /\ Len(sent) = 2
    /\ Len(replies) = 2
    /\ replies[2].kind = "answer"
    /\ pc = "resolved"
    /\ outcome.kind = "resolved"

\* C26: initiateAuth and respondToAuthChallenge of the admin facade resolve
\* a response without AuthenticationResult with authenticationResult absent
\* and challengeName, session and challengeParameters as the provider sent
\* them; a response with a complete AuthenticationResult resolves with
\* authenticationResult equal to mapAuthResult of it.
C26_ChallengeOrTokens ==
    (op \in {"initiateAuth", "respondToAuthChallenge"} /\ isSettled
        /\ response.kind = "answer") =>
        LET body == response.body
            mapped == mapAuthResult(body.AuthenticationResult)
        IN  /\ body.AuthenticationResult = NoObject =>
                  /\ pc = "resolved"
                  /\ "authenticationResult" \notin DOMAIN outcome.value
                  /\ outcome.value.challengeName = body.ChallengeName
                  /\ outcome.value.session = body.Session
                  /\ outcome.value.challengeParameters = body.ChallengeParameters
            /\ (body.AuthenticationResult # NoObject /\ mapped.kind = "returned") =>
                  /\ pc = "resolved"
                  /\ "authenticationResult" \in DOMAIN outcome.value
                  /\ outcome.value.authenticationResult = mapped.value

\* respondToAuthChallenge has resolved a further challenge, without tokens
C26_Witness ==
    /\ op = "respondToAuthChallenge"
    /\ pc = "resolved"
    /\ response.body.AuthenticationResult = NoObject
    /\ response.body.ChallengeName = <<"N">>
    /\ response.body.Session = <<"e">>
    /\ outcome.value.challengeName = <<"N">>
    /\ "authenticationResult" \notin DOMAIN outcome.value

\* C30: listUsers and listUsersInGroup are all-or-nothing: answered with
\* an absent Users they resolve with an empty list; answered with entries
\* that all carry a Username they resolve with one record per entry, in the
\* order of the entries; answered with an entry that lacks Username they
\* reject with the mapper's failure and give no list at all.
C30_AllOrNothing ==
    (op \in {"listUsers", "listUsersInGroup"} /\ isSettled /\ response.kind = "answer") =>
        LET Users == response.body.Users
            entries == IF Users = UndefinedList THEN <<>> ELSE Users
        IN  /\ pc = "resolved" =>
                  /\ Len(outcome.value.users) = Len(entries)
                  /\ \A i \in DOMAIN entries :
                        outcome.value.users[i].username = entries[i].Username
            /\ (\A i \in DOMAIN entries : Truthy(entries[i].Username)) => pc = "resolved"
            /\ (\E i \in DOMAIN entries : entries[i].Username = Undefined) =>
                  /\ pc = "rejected"
                  /\ outcome = Rejected(Error(InvalidAdminGetUser))
                  /\ "value" \notin DOMAIN outcome

\* listUsers has rejected a list whose second entry alone lacks Username
C30_Witness ==
    /\ op = "listUsers"
    /\ pc = "rejected"
    /\ response.kind = "answer"
    /\ response.body.Users # UndefinedList
    /\ Len(response.body.Users) = 2
    /\ response.body.Users[1].Username = <<"u">>
    /\ response.body.Users[2].Username = Undefined
    /\ outcome.error.message = InvalidAdminGetUser

\* what createUser(p) comes to when it runs alone and the provider gives
\* the replies, in their order
createUserAlone(p, givenReplies) ==
    LET first == givenReplies[1]
        mapped == mapAdminCreateUserResponse(first.body, 0, 0)
    IN  IF first.kind = "failure" THEN Rejected(first.error)
        ELSE IF mapped.kind = "thrown" THEN Rejected(Error(mapped.message))
        ELSE IF ~Truthy(p.password) THEN Resolved(mapped.value)
        ELSE awaitSend(givenReplies[2], Resolved(mapped.value))

\* what the invocation comes to when it runs alone with its parameters
\* and its replies
ranAlone(call) ==
    IF call.op = "signIn" THEN signInResult(call.replies[1])
    ELSE createUserAlone(call.params, call.replies)

=============================================================================
